---- MODULE Spec2Model ----
(***************************************************************************)
(* Graph capture and replay of the HIP runtime (hip_graph_internal.hpp):   *)
(* the node/graph data structure with its structural edits, the run-list   *)
(* builder, and the executable graph (instantiate / run / update).         *)
(*                                                                         *)
(* Node objects live in a heap indexed by address; a pointer is an         *)
(* address, NULL is 0.  A freed address may be handed out again by a       *)
(* later allocation.  size_t counters are held by the signed               *)
(* representative of their residue: -1 stands for SIZE_MAX.                *)
(***************************************************************************)
EXTENDS Integers, Sequences, FiniteSets, TLC

\* ---------------------------------------------------------------- bounds
MaxNodes == 4
MaxOps == 8
MaxLevel == 4
MaxDup == 2
MaxLaunches == 2

\* Addresses of the nodes the caller creates, and of the whole heap: the
\* clone of the node at vertex index i is allocated at CloneBase + i.
Addr == 1..MaxNodes
CloneBase == MaxNodes
Heap == 1..(2 * MaxNodes)
NULL == 0

\* The handles of the graph under construction, of the graph clone() makes,
\* and of the hipGraphExec object.
GraphHandle == 1
CloneHandle == 2
ExecHandle == 1

\* ---------------------------------------------------------------- state
VARIABLES
  nodes,       \* heap: address -> hipGraphNode object
  nodeSet_,    \* hipGraphNode::nodeSet_, the registry of live nodes
  vertices_,   \* ihipGraph::vertices_ of the graph under construction
  nextID,      \* hipGraphNode::nextID
  brk,         \* number of heap addresses handed out so far
  aborted,     \* the process was terminated by a checked build or a fault
  ops,         \* number of operations performed
  last,        \* the last operation: its name, arguments and return value
  clonedGraph, \* vertices_ of the graph made by ihipGraph::clone
  clonedNodes_, \* the old -> new node map filled by ihipGraph::clone
  exec,        \* the hipGraphExec object
  run,         \* position of hipGraphExec::Run within the current launch
  cmds,        \* the amd::Command objects created so far
  queues,      \* per queue, the commands submitted to it, in order
  graphSet_,   \* ihipGraph::graphSet_, the registry of live graphs
  graphExecSet_, \* hipGraphExec::graphExecSet_, the registry of live plans
  locks,       \* per registry, the thread that holds its amd::Monitor
  threads,     \* per thread, the call it is in and its position in it
  stack        \* the call stack of the AddEdge call in progress

graphVars == <<nodes, nodeSet_, vertices_, nextID, brk>>
cloneVars == <<clonedGraph, clonedNodes_>>
execVars == <<exec, run, cmds, queues>>
planVars == <<clonedGraph, clonedNodes_, exec, run, cmds, queues>>
threadVars == <<locks, threads>>
regVars == <<graphSet_, graphExecSet_, locks, threads>>
vars == <<nodes, nodeSet_, vertices_, nextID, brk, aborted, ops, last,
          clonedGraph, clonedNodes_, exec, run, cmds, queues,
          graphSet_, graphExecSet_, locks, threads, stack>>

\* The registries, each with its own lock, and the caller threads.
Registries == {"node", "graph", "exec"}
MaxThreads == 2
Threads == 1..MaxThreads
NoThread == 0
IdleThread == [call |-> "none", kind |-> "none", obj |-> NULL, pc |-> 0, tmp |-> 0]

\* ---------------------------------------------------------------- helpers
Max(a, b) == IF a >= b THEN a ELSE b

RemoveAll(s, x) == SelectSeq(s, LAMBDA e : e # x)

Count(s, x) == Cardinality({i \in DOMAIN s : s[i] = x})

Range(s) == {s[i] : i \in DOMAIN s}

Contains(s, x) == \E i \in DOMAIN s : s[i] = x

\* Position of x in s, 0 when absent.
IndexOf(s, x) == IF Contains(s, x) THEN CHOOSE i \in DOMAIN s : s[i] = x ELSE 0

MapSeq(s, F(_)) == [i \in DOMAIN s |-> F(s[i])]

\* Content of a heap slot that holds no object.
FreedNode ==
  [type_ |-> "None", level_ |-> 0, id_ |-> 0, inDegree_ |-> 0, outDegree_ |-> 0,
   edges_ |-> <<>>, dependencies_ |-> <<>>, params |-> <<>>,
   commands_ |-> <<>>, queue_ |-> NULL]

\* hipGraphNode::hipGraphNode(hipGraphNodeType)
NewNode(type, id, p) ==
  [type_ |-> type, level_ |-> 0, id_ |-> id, inDegree_ |-> 0, outDegree_ |-> 0,
   edges_ |-> <<>>, dependencies_ |-> <<>>, params |-> p,
   commands_ |-> <<>>, queue_ |-> NULL]

\* ---------------------------------------------------------------- node edits
\* hipGraphNode::UpdateEdgeLevel: raise the level of every child, recursively.
\* A child that is no live object (a dangling pointer) is written through
\* without visible effect.
RECURSIVE UpdateEdgeLevelFrom(_, _, _, _)
UpdateEdgeLevelFrom(H, L, n, i) ==
  IF i > Len(H[n].edges_) THEN H
  ELSE LET e == H[n].edges_[i]
           H1 == IF e \in L
                 THEN [H EXCEPT ![e].level_ = Max(@, H[n].level_ + 1)]
                 ELSE H
           H2 == IF e \in L THEN UpdateEdgeLevelFrom(H1, L, e, 1) ELSE H1
       IN UpdateEdgeLevelFrom(H2, L, n, i + 1)

\* UpdateEdgeLevel that raises the level of the children only.
UpdateEdgeLevel_Shallow(H, L, n) ==
  [a \in Heap |->
     IF a \in Range(H[n].edges_) \cap L
     THEN [H[a] EXCEPT !.level_ = Max(@, H[n].level_ + 1)]
     ELSE H[a]]

UpdateEdgeLevel(H, L, n) == UpdateEdgeLevelFrom(H, L, n, 1)

\* An AddDependency that records nothing.
AddDependency_None(H, c, p) == H

\* hipGraphNode::AddDependency
AddDependency(H, c, p) == [H EXCEPT ![c].dependencies_ = Append(@, p)]

\* hipGraphNode::RemoveDependency
RemoveDependency(H, c, p) == [H EXCEPT ![c].dependencies_ = RemoveAll(@, p)]

\* AddEdge that raises the child's level only, not its descendants'.
AddEdge_NoPropagate(H, L, p, c) ==
  LET H1 == [H EXCEPT ![p].edges_ = Append(@, c),
                      ![p].outDegree_ = @ + 1]
      H2 == [H1 EXCEPT ![c].inDegree_ = @ + 1]
      H3 == [H2 EXCEPT ![c].level_ = Max(@, H2[p].level_ + 1)]
  IN AddDependency(H3, c, p)

\* hipGraphNode::AddEdge, statement by statement.
AddEdge(H, L, p, c) ==
  LET H1 == [H EXCEPT ![p].edges_ = Append(@, c),
                      ![p].outDegree_ = @ + 1]
      H2 == [H1 EXCEPT ![c].inDegree_ = @ + 1]
      H3 == [H2 EXCEPT ![c].level_ = Max(@, H2[p].level_ + 1)]
      H4 == UpdateEdgeLevel(H3, L, c)
  IN AddDependency(H4, c, p)

\* The level RemoveEdge computes for the child: the loop runs over the
\* child's dependency list as it is before the parent is taken out of it.
RECURSIVE LevelOver(_, _, _)
LevelOver(H, deps, i) ==
  IF i > Len(deps) THEN 0
  ELSE Max(H[deps[i]].level_ + 1, LevelOver(H, deps, i + 1))

\* RemoveEdge without the decrement of the child's inDegree_.
RemoveEdge_KeepInDegree(H, p, c) ==
  IF ~Contains(H[p].edges_, c) THEN <<FALSE, H>>
  ELSE LET H1 == [H EXCEPT ![p].edges_ = RemoveAll(@, c),
                           ![p].outDegree_ = @ - 1]
           H3 == [H1 EXCEPT ![c].level_ = LevelOver(H1, H1[c].dependencies_, 1)]
       IN <<TRUE, RemoveDependency(H3, c, p)>>

\* RemoveEdge without the test for a child that is not in the edge list.
RemoveEdge_Unchecked(H, p, c) ==
  LET H1 == [H EXCEPT ![p].edges_ = RemoveAll(@, c),
                      ![p].outDegree_ = @ - 1]
      H2 == [H1 EXCEPT ![c].inDegree_ = @ - 1]
      H3 == [H2 EXCEPT ![c].level_ = LevelOver(H2, H2[c].dependencies_, 1)]
  IN <<TRUE, RemoveDependency(H3, c, p)>>

\* hipGraphNode::RemoveEdge: <<return value, heap>>.
RemoveEdge(H, p, c) ==
  IF ~Contains(H[p].edges_, c) THEN <<FALSE, H>>
  ELSE LET H1 == [H EXCEPT ![p].edges_ = RemoveAll(@, c),
                           ![p].outDegree_ = @ - 1]
           H2 == [H1 EXCEPT ![c].inDegree_ = @ - 1]
           H3 == [H2 EXCEPT ![c].level_ = LevelOver(H2, H2[c].dependencies_, 1)]
       IN <<TRUE, RemoveDependency(H3, c, p)>>

\* hipGraphNode::~hipGraphNode, first loop: every child drops this node from
\* its dependency list.  The child's inDegree_ is left as it is.
RECURSIVE DetachChildren(_, _, _, _)
DetachChildren(H, L, n, i) ==
  IF i > Len(H[n].edges_) THEN H
  ELSE LET e == H[n].edges_[i]
           H1 == IF e \in L THEN RemoveDependency(H, e, n) ELSE H
       IN DetachChildren(H1, L, n, i + 1)

\* hipGraphNode::~hipGraphNode, second loop, as an unchecked build runs it.
\* The range-for walks dependencies_ with the begin/end iterators taken
\* before the loop, while parent->RemoveEdge(this) erases from the same
\* vector: the walk visits slot i of the vector's storage S for every i up to
\* the original length.  std::remove compacts the kept elements to the front
\* and leaves the slots behind them as they were.
RECURSIVE DetachParents(_, _, _, _, _)
DetachParents(H, L, n, S, i) ==
  IF i > Len(S) THEN H
  ELSE LET q == S[i]
           r == IF q \in L THEN RemoveEdge(H, q, n) ELSE <<FALSE, H>>
           H1 == r[2]
           kept == H1[n].dependencies_
           S1 == kept \o SubSeq(S, Len(kept) + 1, Len(S))
       IN DetachParents(H1, L, n, S1, i + 1)

\* hipGraphNode::~hipGraphNode
Destructor(H, L, n) ==
  LET H1 == DetachChildren(H, L, n, 1)
      H2 == DetachParents(H1, L, n, H1[n].dependencies_, 1)
  IN [H2 EXCEPT ![n] = FreedNode]

\* ---------------------------------------------------------------- queries
\* Nodes reachable from n along edges_ (n included), through live nodes.
RECURSIVE ReachFrom(_, _, _, _)
ReachFrom(H, L, frontier, seen) ==
  IF frontier = {} THEN seen
  ELSE LET nxt == UNION {Range(H[n].edges_) : n \in frontier \cap L}
       IN ReachFrom(H, L, nxt \ (seen \cup frontier), seen \cup frontier)

Reach(H, L, n) == ReachFrom(H, L, {n}, {})

\* The pointers held in the edge and dependency lists of live nodes.
Referenced(H, L) ==
  UNION {Range(H[n].edges_) \cup Range(H[n].dependencies_) : n \in L}

\* ihipGraph::GetRootNodes / ihipGraph::GetLeafNodes
GetRootNodes(H, V) == SelectSeq(V, LAMBDA n : H[n].inDegree_ = 0)

GetLeafNodes(H, V) == SelectSeq(V, LAMBDA n : H[n].outDegree_ = 0)

\* ---------------------------------------------------------------- parameters
\* size_t arithmetic wraps around; the model gives size_t 16 bits.
SizeT == 2^16

\* A memset destination is NULL (0) or a device allocation of DevSize bytes
\* made with pitch DevPitch and height DevHeight.
DevPitch == 4
DevHeight == 2
DevSize == DevPitch * DevHeight

MemsetParams(value, elementSize, width, height) ==
  [dst |-> 1, value |-> value, elementSize |-> elementSize, width |-> width,
   height |-> height, pitch |-> DevPitch]

\* ihipGraphMemsetParams_validate
ihipGraphMemsetParams_validate(q) ==
  IF q.width = 0 THEN "hipErrorInvalidValue"
  ELSE IF q.elementSize \notin {1, 2, 4} THEN "hipErrorInvalidValue"
  ELSE IF q.height <= 0 THEN "hipErrorInvalidValue"
  ELSE IF q.dst # NULL /\ (q.pitch * q.height) % SizeT > DevSize
  THEN "hipErrorInvalidValue"
  ELSE "hipSuccess"

\* ihipMemset_validate
ihipMemset_validate(dst, sizeBytes) ==
  IF sizeBytes = 0 THEN "hipSuccess"
  ELSE IF dst = NULL THEN "hipErrorInvalidValue"
  ELSE IF sizeBytes > DevSize THEN "hipErrorInvalidValue"
  ELSE "hipSuccess"

\* ihipMemset3D_validate
ihipMemset3D_validate(dst, pitch, height, sizeBytes) ==
  IF dst = NULL THEN "hipErrorInvalidValue"
  ELSE IF sizeBytes > DevSize THEN "hipErrorInvalidValue"
  ELSE IF pitch = DevPitch /\ height > DevHeight THEN "hipErrorInvalidValue"
  ELSE "hipSuccess"

\* hipGraphMemsetNode::SetParams(const hipMemsetParams*): <<status, node>>.
MemsetSetParams(node, q) ==
  LET e1 == ihipGraphMemsetParams_validate(q)
      e2 == IF q.height = 1
            THEN ihipMemset_validate(q.dst, (q.width * q.elementSize) % SizeT)
            ELSE ihipMemset3D_validate(q.dst, q.pitch, q.height,
                                       (q.width * q.height * 1) % SizeT)
  IN IF e1 # "hipSuccess" THEN <<e1, node>>
     ELSE IF e2 # "hipSuccess" THEN <<e2, node>>
     ELSE <<"hipSuccess", [node EXCEPT !.params = q]>>

\* The kernels of the loaded code objects, by function handle: the sizes of
\* their parameters (amd::KernelSignature).
Signature == <<(<<4>>), (<<8, 4>>)>>

\* hipKernelNodeParams as a caller passes them: the function, one value per
\* kernel parameter (passed in kernelParams, not in extra), and the launch
\* dimensions.
KernelNodeParams(func, kernelParams, blockDim) ==
  [func |-> func, kernelParams |-> kernelParams, blockDim |-> blockDim]

\* An argument buffer is its size and content; NullBuffer is the null
\* pointer in the place of one, NullArray the null pointer in the place of
\* the pointer array (every kernel of the model has a parameter).
NullBuffer == [size |-> 0, val |-> NULL]
NullArray == <<>>

\* hipGraphKernelNode::hipGraphKernelNode with copyParams: what the node
\* stores.
KernelParams(q) ==
  [func |-> q.func, func_ |-> q.func, numParams_ |-> Len(Signature[q.func]),
   kernelParams |-> [i \in DOMAIN Signature[q.func] |->
                       [size |-> Signature[q.func][i], val |-> q.kernelParams[i]]],
   blockDim |-> q.blockDim]

\* The parameters a Kernel node hands to SetParams(hipGraphNode*) of another.
KernelParamsOf(node) ==
  KernelNodeParams(node.params.func,
                   [i \in DOMAIN node.params.kernelParams |->
                      node.params.kernelParams[i].val],
                   node.params.blockDim)

\* ihipValidateKernelParams: the launch dimensions.
ihipValidateKernelParams(q) ==
  IF q.blockDim <= 0 THEN "hipErrorInvalidValue" ELSE "hipSuccess"

\* hipGraphKernelNode::SetParams, the realloc of the pointer array to n
\* entries: new entries are pointers not yet set.
KernelResize(kp, n) ==
  IF n <= Len(kp) THEN SubSeq(kp, 1, n)
  ELSE kp \o [i \in 1..(n - Len(kp)) |-> NullBuffer]

\* hipGraphKernelNode::SetParams, first loop from buffer i on: a buffer whose
\* size changes is reallocated, then the new content is copied in.  allocs
\* counts the allocations made; the one numbered failAt fails.
\* [status, kernelParams, allocs]
RECURSIVE KernelRewrite(_, _, _, _, _, _, _, _)
KernelRewrite(kp, old, new, vals, i, min, allocs, failAt) ==
  IF i > min
  THEN [status |-> "hipSuccess", kernelParams |-> kp, allocs |-> allocs]
  ELSE IF new[i] # old[i] /\ allocs + 1 = failAt
  THEN [status |-> "hipErrorOutOfMemory",
        kernelParams |-> [kp EXCEPT ![i] = NullBuffer], allocs |-> allocs + 1]
  ELSE KernelRewrite([kp EXCEPT ![i] = [size |-> new[i], val |-> vals[i]]],
                     old, new, vals, i + 1, min,
                     IF new[i] # old[i] THEN allocs + 1 ELSE allocs, failAt)

\* hipGraphKernelNode::SetParams, second loop from buffer i on: the buffers
\* the new function has in addition are allocated, all with the size of the
\* first of them.
RECURSIVE KernelExtend(_, _, _, _, _, _, _)
KernelExtend(kp, size, vals, i, numParams, allocs, failAt) ==
  IF i > numParams
  THEN [status |-> "hipSuccess", kernelParams |-> kp, allocs |-> allocs]
  ELSE IF allocs + 1 = failAt
  THEN [status |-> "hipErrorOutOfMemory",
        kernelParams |-> [kp EXCEPT ![i] = NullBuffer], allocs |-> allocs + 1]
  ELSE KernelExtend([kp EXCEPT ![i] = [size |-> size, val |-> vals[i]]],
                    size, vals, i + 1, numParams, allocs + 1, failAt)

\* hipGraphKernelNode::SetParams, the assignments after the buffers.
KernelFinish(p, q, kp, numParams) ==
  [p EXCEPT !.kernelParams = kp, !.numParams_ = numParams,
            !.blockDim = q.blockDim, !.func = q.func]

\* hipGraphKernelNode::SetParams after the second loop gave r.
KernelExtended(node, p, q, numParams, r) ==
  IF r.status # "hipSuccess"
  THEN <<r.status, [node EXCEPT !.params = [p EXCEPT !.kernelParams = r.kernelParams]]>>
  ELSE <<"hipSuccess",
         [node EXCEPT !.params = KernelFinish(p, q, r.kernelParams, numParams)]>>

\* hipGraphKernelNode::SetParams after the first loop gave r.
KernelRewritten(node, p, q, new, numParams, r, failAt) ==
  IF r.status # "hipSuccess"
  THEN <<r.status, [node EXCEPT !.params = [p EXCEPT !.kernelParams = r.kernelParams]]>>
  ELSE IF numParams > p.numParams_
  THEN KernelExtended(node, p, q, numParams,
                      KernelExtend(r.kernelParams, new[p.numParams_ + 1],
                                   q.kernelParams, p.numParams_ + 1, numParams,
                                   r.allocs, failAt))
  ELSE <<"hipSuccess",
         [node EXCEPT !.params = KernelFinish(p, q, r.kernelParams, numParams)]>>

\* hipGraphKernelNode::SetParams once func_ is set (p holds it): the pointer
\* array is reallocated when the number of parameters changes, then the
\* buffers are rewritten.  old is the signature of the previous function.
KernelReplace(node, p, old, q, failAt) ==
  IF Len(Signature[p.func_]) # p.numParams_ /\ failAt = 1
  THEN <<"hipErrorOutOfMemory", [node EXCEPT !.params = [p EXCEPT !.kernelParams = NullArray]]>>
  ELSE KernelRewritten(node, p, q, Signature[p.func_], Len(Signature[p.func_]),
                       KernelRewrite(KernelResize(p.kernelParams,
                                                  Len(Signature[p.func_])),
                                     old, Signature[p.func_], q.kernelParams, 1,
                                     IF Len(Signature[p.func_]) < p.numParams_
                                     THEN Len(Signature[p.func_]) ELSE p.numParams_,
                                     IF Len(Signature[p.func_]) # p.numParams_
                                     THEN 1 ELSE 0,
                                     failAt),
                       failAt)

\* hipGraphKernelNode::SetParams(const hipKernelNodeParams*) with the
\* allocation numbered failAt failing (0: none): <<status, node>>.
\* getFunc fails for the null function only.
KernelSetParams(node, q, failAt) ==
  IF ihipValidateKernelParams(q) # "hipSuccess"
  THEN <<ihipValidateKernelParams(q), node>>
  ELSE IF q.func # node.params.func /\ q.func = NULL
  THEN <<"hipErrorInvalidDeviceFunction", node>>
  ELSE KernelReplace(node,
                     [node.params EXCEPT
                        !.func_ = IF q.func # node.params.func THEN q.func ELSE @],
                     Signature[node.params.func_], q, failAt)

\* ---------------------------------------------------------------- memcpy
\* Pointers a copy node can hold: NULL, the device allocation, a host
\* buffer, and the addresses of two registered global variables (symbols) of
\* SymSize bytes each.
DevicePtr == 1
HostPtr == 2
SymbolA == 3
SymbolB == 4
Symbols == {SymbolA, SymbolB}
SymSize == 2

\* getMemoryObject: the device allocation that holds the pointer, or NULL.
getMemoryObject(ptr) == IF ptr = DevicePtr THEN DevicePtr ELSE NULL

\* The memory type the copy nodes derive from a memory object.
MemoryTypeOf(mem) == IF mem # NULL THEN "hipMemoryTypeDevice" ELSE "hipMemoryTypeHost"

\* hip::getMemoryType: <<source type, destination type>> of a copy kind.
getMemoryType(kind) ==
  CASE kind = "hipMemcpyHostToHost" -> <<"hipMemoryTypeHost", "hipMemoryTypeHost">>
    [] kind = "hipMemcpyHostToDevice" -> <<"hipMemoryTypeHost", "hipMemoryTypeDevice">>
    [] kind = "hipMemcpyDeviceToHost" -> <<"hipMemoryTypeDevice", "hipMemoryTypeHost">>
    [] OTHER -> <<"hipMemoryTypeDevice", "hipMemoryTypeDevice">>

\* ihipMemcpySymbol_validate: the symbol is registered and the range lies in it.
ihipMemcpySymbol_validate(symbol, sizeBytes, offset) ==
  IF symbol \notin Symbols THEN "hipErrorInvalidSymbol"
  ELSE IF offset + sizeBytes > SymSize THEN "hipErrorInvalidValue"
  ELSE "hipSuccess"

Memcpy1DParams(dst, src, count, kind) ==
  [dst |-> dst, src |-> src, count |-> count, kind |-> kind]

\* hipGraphMemcpyNodeFromSymbol / hipGraphMemcpyNodeToSymbol: the 1D fields,
\* one of them NULL, and the symbol with its offset.
MemcpyFromSymbolParams(dst, symbol, count, offset, kind) ==
  [dst |-> dst, src |-> NULL, count |-> count, kind |-> kind,
   symbol |-> symbol, offset |-> offset]

MemcpyToSymbolParams(symbol, src, count, offset, kind) ==
  [dst |-> NULL, src |-> src, count |-> count, kind |-> kind,
   symbol |-> symbol, offset |-> offset]

\* IsHtoHMemcpyValid
IsHtoHMemcpyValid(dst, src, kind) ==
  (src # NULL /\ dst # NULL /\ getMemoryObject(src) = NULL /\ getMemoryObject(dst) = NULL)
    => kind = "hipMemcpyHostToHost"

\* ihipMemcpy_validate, which hipGraphMemcpyNode1D::ValidateParams applies.
ihipMemcpy_validate(dst, src, sizeBytes, kind) ==
  IF dst = NULL \/ src = NULL THEN "hipErrorInvalidValue"
  ELSE IF (getMemoryObject(dst) # NULL /\ sizeBytes > DevSize) \/
          (getMemoryObject(src) # NULL /\ sizeBytes > DevSize)
       THEN "hipErrorInvalidValue"
  ELSE IF ~IsHtoHMemcpyValid(dst, src, kind) THEN "hipErrorInvalidValue"
  ELSE "hipSuccess"

\* hipGraphMemcpyNode1D::SetParams(dst, src, count, kind): <<status, node>>.
Memcpy1DSetParams(node, dst, src, count, kind) ==
  LET status == ihipMemcpy_validate(dst, src, count, kind)
  IN IF status # "hipSuccess" THEN <<status, node>>
     ELSE <<"hipSuccess",
            [node EXCEPT !.params.dst = dst, !.params.src = src,
                         !.params.count = count, !.params.kind = kind]>>

\* hipGraphMemcpyNodeFromSymbol::SetParams(dst, symbol, count, offset, kind)
MemcpyFromSymbolSetParams(node, dst, symbol, count, offset, kind) ==
  LET status == ihipMemcpySymbol_validate(symbol, count, offset)
      dstMemory == getMemoryObject(dst)
  IN IF ihipMemcpySymbol_validate(dst, count, offset) = "hipSuccess"
     THEN <<"hipErrorInvalidValue", node>>
     ELSE IF status # "hipSuccess" THEN <<status, node>>
     ELSE IF dstMemory = NULL /\ kind # "hipMemcpyHostToDevice"
       THEN <<"hipErrorInvalidMemcpyDirection", node>>
     ELSE IF dstMemory # NULL /\ kind # "hipMemcpyDeviceToDevice"
       THEN <<"hipErrorInvalidMemcpyDirection", node>>
     ELSE IF kind \in {"hipMemcpyHostToHost", "hipMemcpyDeviceToHost"}
       THEN <<"hipErrorInvalidMemcpyDirection", node>>
     ELSE <<"hipSuccess",
            [node EXCEPT !.params.dst = dst, !.params.symbol = symbol,
                         !.params.count = count, !.params.offset = offset,
                         !.params.kind = kind]>>

\* hipGraphMemcpyNodeToSymbol::SetParams(symbol, src, count, offset, kind)
MemcpyToSymbolSetParams(node, symbol, src, count, offset, kind) ==
  LET srcMemory == getMemoryObject(src)
      dstMemory == getMemoryObject(symbol)
      status == ihipMemcpySymbol_validate(symbol, count, offset)
  IN IF (dstMemory # NULL /\ count > (DevSize - offset) % SizeT) \/
        (srcMemory # NULL /\ count > (DevSize - offset) % SizeT)
       THEN <<"hipErrorInvalidValue", node>>
     ELSE IF getMemoryType(kind)[1] # MemoryTypeOf(srcMemory)
       THEN <<"hipErrorInvalidValue", node>>
     ELSE IF getMemoryType(kind)[2] # MemoryTypeOf(dstMemory)
       THEN <<"hipErrorInvalidValue", node>>
     ELSE IF status # "hipSuccess" THEN <<status, node>>
     ELSE <<"hipSuccess",
            [node EXCEPT !.params.symbol = symbol, !.params.src = src,
                         !.params.count = count, !.params.offset = offset,
                         !.params.kind = kind]>>

\* The SetParams(hipGraphNode*) overrides of the three 1D copy kinds, given
\* the parameters q of the other node: each forwards the other node's
\* members, in the order written at the call.
Memcpy1DSetParamsNode(node, q) ==
  Memcpy1DSetParams(node, q.dst, q.src, q.count, q.kind)

MemcpyFromSymbolSetParamsNode(node, q) ==
  MemcpyFromSymbolSetParams(node, q.dst, q.symbol, q.count, q.offset, q.kind)

MemcpyToSymbolSetParamsNode(node, q) ==
  MemcpyToSymbolSetParams(node, q.src, q.symbol, q.count, q.offset, q.kind)

\* hipChildGraphNode::SetParams(const ihipGraph*) from index i on: the loop
\* runs over the new graph's nodes and indexes the old graph's nodes with
\* the same i.  Past the end of the old vector the read is out of bounds.
RECURSIVE ChildGraphSetParams(_, _, _)
\* virtual hipGraphNode::SetParams(hipGraphNode*), by kind of the receiver:
\* <<status, receiver>>.
RECURSIVE SetParams(_, _)
ChildGraphSetParams(old, new, i) ==
  IF i > Len(new.vertices_) THEN <<"hipSuccess", old>>
  ELSE IF i > Len(old.vertices_) THEN <<"OutOfBounds", old>>
  ELSE LET r == SetParams(old.nodes[old.vertices_[i]], new.nodes[new.vertices_[i]])
           old1 == [old EXCEPT !.nodes[old.vertices_[i]] = r[2]]
       IN IF r[1] # "hipSuccess" THEN <<r[1], old1>>
          ELSE ChildGraphSetParams(old1, new, i + 1)

SetParams(node, other) ==
  CASE node.type_ = "Memset" -> MemsetSetParams(node, other.params)
    [] node.type_ = "Kernel" -> KernelSetParams(node, KernelParamsOf(other), 0)
    [] node.type_ = "Host" -> <<"hipSuccess", [node EXCEPT !.params = other.params]>>
    [] node.type_ = "Memcpy1D" -> Memcpy1DSetParamsNode(node, other.params)
    [] node.type_ = "MemcpyFromSymbol" ->
         MemcpyFromSymbolSetParamsNode(node, other.params)
    [] node.type_ = "MemcpyToSymbol" ->
         MemcpyToSymbolSetParamsNode(node, other.params)
    [] node.type_ = "Graph" ->
         LET r == ChildGraphSetParams(node.params.childGraph_,
                                      other.params.childGraph_, 1)
         IN <<r[1], [node EXCEPT !.params.childGraph_ = r[2]]>>
    [] OTHER -> <<"hipSuccess", node>>

\* ---------------------------------------------------------------- clone
\* A copy constructor that does not copy a Memset node's value.
CopyNode_LoseValue(node) ==
  [node EXCEPT !.edges_ = <<>>, !.dependencies_ = <<>>,
               !.commands_ = <<>>, !.queue_ = NULL,
               !.params = IF node.type_ = "Memset"
                          THEN [node.params EXCEPT !.value = 0]
                          ELSE node.params]

\* hipGraphNode::hipGraphNode(const hipGraphNode&) with the copy constructor
\* of the node's kind: level, degrees, id and kind are copied, the edge and
\* dependency lists start empty, the parameters are deep-copied, no command
\* is bound.
CopyNode(node) ==
  [node EXCEPT !.edges_ = <<>>, !.dependencies_ = <<>>,
               !.commands_ = <<>>, !.queue_ = NULL]

\* SetEdges that appends nothing.
SetEdges_Drop(H, n, edges) == H

\* hipGraphNode::SetEdges / hipGraphNode::SetDependencies
SetEdges(H, n, edges) == [H EXCEPT ![n].edges_ = @ \o edges]

SetDependencies(H, n, deps) == [H EXCEPT ![n].dependencies_ = @ \o deps]

\* ihipGraph::clone(clonedNodes): the map, then the heap with the clones.
CloneMap(V) == [a \in Range(V) |-> CloneBase + IndexOf(V, a)]

RECURSIVE Rewire(_, _, _, _, _)
Rewire(H, H0, V, M, i) ==
  IF i > Len(V) THEN H
  ELSE LET n == V[i]
           H1 == SetEdges(H, M[n], MapSeq(H0[n].edges_, LAMBDA e : M[e]))
           H2 == SetDependencies(H1, M[n],
                                 MapSeq(H0[n].dependencies_, LAMBDA d : M[d]))
       IN Rewire(H2, H0, V, M, i + 1)

GraphClone(H, V) ==
  LET M == CloneMap(V)
      H1 == [a \in Heap |->
               IF \E n \in Range(V) : M[n] = a
               THEN CopyNode(H[CHOOSE n \in Range(V) : M[n] = a])
               ELSE H[a]]
  IN Rewire(H1, H, V, M, 1)

\* ---------------------------------------------------------------- scheduler
\* The lists of the live vertices form a graph: every pointer they hold is a
\* vertex, and c is in p's edge list as often as p is in c's dependency list.
IsGraph(H, V) ==
  /\ \A n \in Range(V) :
       Range(H[n].edges_) \cup Range(H[n].dependencies_) \subseteq Range(V)
  /\ \A p, c \in Range(V) :
       Count(H[p].edges_, c) = Count(H[c].dependencies_, p)

\* A node continues a chain when it is the first child of its first
\* dependency, whatever the number of its dependencies.
Continues_FirstDependency(H, c) ==
  /\ H[c].dependencies_ # <<>>
  /\ H[H[c].dependencies_[1]].edges_[1] = c

\* A node is appended to its predecessor's chain when it has exactly one
\* predecessor and is the first child of it; any other node starts a chain.
Continues(H, c) ==
  /\ Len(H[c].dependencies_) = 1
  /\ H[H[c].dependencies_[1]].edges_[1] = c

\* The chain that starts at h.
RECURSIVE ChainFrom(_, _)
ChainFrom(H, h) ==
  IF H[h].edges_ # <<>> /\ Continues(H, H[h].edges_[1])
  THEN <<h>> \o ChainFrom(H, H[h].edges_[1])
  ELSE <<h>>

\* The walk from the root nodes: depth first, roots in vertex order, children
\* in edge insertion order; vis is the sequence of nodes visited so far.
RECURSIVE Visit(_, _, _)
RECURSIVE VisitChildren(_, _, _, _)
Visit(H, n, vis) ==
  IF Contains(vis, n) THEN vis ELSE VisitChildren(H, n, 1, Append(vis, n))

VisitChildren(H, n, i, vis) ==
  IF i > Len(H[n].edges_) THEN vis
  ELSE VisitChildren(H, n, i + 1, Visit(H, H[n].edges_[i], vis))

RECURSIVE VisitAll(_, _, _, _)
VisitAll(H, roots, i, vis) ==
  IF i > Len(roots) THEN vis
  ELSE VisitAll(H, roots, i + 1, Visit(H, roots[i], vis))

WalkOrder(H, V) ==
  VisitAll(H, SelectSeq(V, LAMBDA n : H[n].dependencies_ = <<>>), 1, <<>>)

\* GetRunList with the chains only: no wait is recorded.
GetRunList_NoWaits(H, V) ==
  LET heads == SelectSeq(WalkOrder(H, V), LAMBDA n : ~Continues(H, n))
  IN [parallelLists |-> MapSeq(heads, LAMBDA h : ChainFrom(H, h)),
      waitLists |-> [n \in Range(V) |-> <<>>]]

\* GetRunList that records every dependency as a wait, same-chain
\* predecessors included.
GetRunList_AllWaits(H, V) ==
  LET heads == SelectSeq(WalkOrder(H, V), LAMBDA n : ~Continues(H, n))
  IN [parallelLists |-> MapSeq(heads, LAMBDA h : ChainFrom(H, h)),
      waitLists |-> [n \in Range(V) |-> H[n].dependencies_]]

\* ihipGraph::GetRunList: the chains in the order the walk reaches their
\* first node, and for every node the dependencies that do not precede it in
\* its own chain.
GetRunList(H, V) ==
  LET heads == SelectSeq(WalkOrder(H, V), LAMBDA n : ~Continues(H, n))
      lists == MapSeq(heads, LAMBDA h : ChainFrom(H, h))
      chainOf(n) == CHOOSE k \in DOMAIN lists : Contains(lists[k], n)
      before(n) == SubSeq(lists[chainOf(n)], 1, IndexOf(lists[chainOf(n)], n) - 1)
  IN [parallelLists |-> lists,
      waitLists |-> [n \in Range(V) |->
                       SelectSeq(H[n].dependencies_,
                                 LAMBDA d : ~Contains(before(n), d))]]

\* ---------------------------------------------------------------- commands
\* Queue 0 is the queue of the launch stream; 1, 2, ... are parallelQueues_.
Queues == 0..MaxNodes

NoExec ==
  [state |-> "Uninstantiated", parallelLists_ |-> <<>>, levelOrder_ |-> <<>>,
   nodeWaitLists_ |-> <<>>, parallelQueues_ |-> 0, currentQueueIndex_ |-> 0]

\* The position hipGraphExec::Run is at, the number of launches so far,
\* whether an enqueue of the launch logged a failure, and the status the
\* latest Run gave back to its caller.
IdleRun ==
  [pc |-> "idle", chain |-> 0, idx |-> 0, launch |-> 0, failed |-> FALSE,
   ret |-> "none"]

\* A pointer that was never set to a command, whatever value it holds.
Garbage == -1

\* amd::Command: its type, the node it is bound to (owner: the ChildGraph
\* node whose nested graph holds that node, if any), the parameters it was
\* packed with, its queue, event wait list and execution status, the
\* launch it was created for (0: at instantiation), the number of
\* release() calls made on it, and the state of the callback registered on
\* it for CL_COMPLETE, if any.
NewCommand(type, owner, self, params, queue, launch) ==
  [type |-> type, owner |-> owner, node |-> self, params |-> params,
   queue |-> queue, waitList |-> {}, status |-> "created", launch |-> launch,
   released |-> 0, callback |-> "none"]

\* hipGraphNode::ReleaseCommand: every command of commands_ is released and
\* the list is cleared.  No kind overrides it: the commands bound to the
\* nodes of a ChildGraph node's nested graph are not reached.  <<node, cmds>>
ReleaseCommand(node, C) ==
  <<[node EXCEPT !.commands_ = <<>>],
    [c \in DOMAIN C |->
       IF Contains(node.commands_, c)
       THEN [C[c] EXCEPT !.released = @ + Count(node.commands_, c)]
       ELSE C[c]]>>

\* A CreateCommand that keeps the commands of the launches before.
BaseCreateCommand_Keep(node, queue) == [node EXCEPT !.queue_ = queue]

\* hipGraphNode::CreateCommand
BaseCreateCommand(node, queue) ==
  [node EXCEPT !.commands_ = <<>>, !.queue_ = queue]

\* hipGraphEmptyNode::CreateCommand: [status, node, cmds].
EmptyCreateCommand(owner, self, node, C, queue, launch) ==
  [status |-> "hipSuccess",
   node |-> [BaseCreateCommand(node, queue) EXCEPT !.commands_ = <<Len(C) + 1>>],
   cmds |-> Append(C, NewCommand("Marker", owner, self, node.params, queue, launch))]

\* hipHostNodeParams
HostNodeParams(fn, userData) == [fn |-> fn, userData |-> userData]

\* hipGraphHostNode::CreateCommand: a marker is appended to commands_; the
\* base CreateCommand is not called, so the list is not cleared and queue_
\* is not set.  [status, node, cmds]
HostCreateCommand(owner, self, node, C, queue, launch) ==
  [status |-> "hipSuccess",
   node |-> [node EXCEPT !.commands_ = Append(@, Len(C) + 1)],
   cmds |-> Append(C, NewCommand("Marker", owner, self, node.params, queue, launch))]

\* ihipMemsetCommand: the command pointer is pushed whether or not
\* packFillMemoryCommand has set it (it does not when dst is no device
\* memory).
ihipMemsetCommand(owner, self, node, C, queue, launch) ==
  IF node.params.dst = NULL
  THEN [status |-> "hipErrorInvalidValue",
        node |-> [node EXCEPT !.commands_ = Append(@, Garbage)],
        cmds |-> C]
  ELSE [status |-> "hipSuccess",
        node |-> [node EXCEPT !.commands_ = Append(@, Len(C) + 1)],
        cmds |-> Append(C, NewCommand("FillMemory", owner, self, node.params,
                                      queue, launch))]

\* ihipMemset3DCommand: one fill when the pitch is the row width, else a
\* fill by rows, which needs a pitch and dereferences the memory object.
ihipMemset3DCommand(owner, self, node, C, queue, launch) ==
  IF node.params.pitch = node.params.width
  THEN ihipMemsetCommand(owner, self, node, C, queue, launch)
  ELSE IF node.params.pitch = 0
  THEN [status |-> "hipErrorInvalidValue", node |-> node, cmds |-> C]
  ELSE IF node.params.dst = NULL
  THEN [status |-> "Fault", node |-> node, cmds |-> C]
  ELSE [status |-> "hipSuccess",
        node |-> [node EXCEPT !.commands_ = Append(@, Len(C) + 1)],
        cmds |-> Append(C, NewCommand("FillMemory", owner, self, node.params,
                                      queue, launch))]

\* hipGraphMemsetNode::CreateCommand: [status, node, cmds].
MemsetCreateCommand(owner, self, node, C, queue, launch) ==
  IF node.params.height = 1
  THEN ihipMemsetCommand(owner, self, BaseCreateCommand(node, queue), C, queue, launch)
  ELSE ihipMemset3DCommand(owner, self, BaseCreateCommand(node, queue), C, queue, launch)

\* hipGraphKernelNode::CreateCommand: the stored parameters are validated
\* before anything is touched, then the launch command is made.
\* [status, node, cmds]
KernelCreateCommand(owner, self, node, C, queue, launch) ==
  IF ihipValidateKernelParams(node.params) # "hipSuccess"
  THEN [status |-> ihipValidateKernelParams(node.params), node |-> node, cmds |-> C]
  ELSE [status |-> "hipSuccess",
        node |-> [BaseCreateCommand(node, queue) EXCEPT !.commands_ = <<Len(C) + 1>>],
        cmds |-> Append(C, NewCommand("NDRangeKernel", owner, self, node.params,
                                      queue, launch))]

\* ihipMemcpyCommand: a write, a read or a copy by where src and dst are;
\* no command is made when neither is device memory, and what is left in
\* command is NULL.  [status, command]
ihipMemcpyCommand(owner, self, params, queue, launch) ==
  LET srcMemory == getMemoryObject(params.src)
      dstMemory == getMemoryObject(params.dst)
      type == IF srcMemory = NULL THEN "WriteMemory"
              ELSE IF dstMemory = NULL THEN "ReadMemory"
              ELSE "CopyMemory"
  IN IF srcMemory = NULL /\ dstMemory = NULL
     THEN [status |-> "hipErrorOutOfMemory", command |-> <<>>]
     ELSE [status |-> "hipSuccess",
           command |-> <<NewCommand(type, owner, self, params, queue, launch)>>]

\* hipGraphMemcpyNode1D::CreateCommand: the command pointer, NULL at first,
\* is pushed whatever ihipMemcpyCommand returns.  [status, node, cmds]
Memcpy1DCreateCommand(owner, self, node, C, queue, launch) ==
  LET r == ihipMemcpyCommand(owner, self, node.params, queue, launch)
  IN [status |-> r.status,
      node |-> [BaseCreateCommand(node, queue) EXCEPT
                  !.commands_ = IF r.command = <<>> THEN <<NULL>>
                                ELSE <<Len(C) + 1>>],
      cmds |-> C \o r.command]

\* ihipGraph::LevelOrder: the vertices by ascending level, vertices of one
\* level in vertex order.
RECURSIVE LevelOrderFrom(_, _, _)
LevelOrderFrom(H, V, l) ==
  IF l > MaxLevel THEN <<>>
  ELSE SelectSeq(V, LAMBDA n : H[n].level_ = l) \o LevelOrderFrom(H, V, l + 1)

LevelOrder(H, V) == LevelOrderFrom(H, V, 0)

\* UpdateQueue: the first chain runs on the given queue, every further chain
\* on the next queue of hipGraphExec::GetAvailableQueue.
\* <<queue of every chain, currentQueueIndex_ afterwards>>
UpdateQueue(lists, queue, index) ==
  <<[k \in DOMAIN lists |-> IF k = 1 THEN queue ELSE index + k - 1],
    index + Cardinality(DOMAIN lists \ {1})>>

ChainOf(lists, n) == CHOOSE k \in DOMAIN lists : Contains(lists[k], n)

\* CreateCommand of a node of a nested graph.  The nested graphs hold Memset
\* and Empty nodes: [status, node, cmds].
LeafCreateCommand(owner, self, node, C, queue, launch) ==
  IF node.type_ = "Memset"
  THEN MemsetCreateCommand(owner, self, node, C, queue, launch)
  ELSE EmptyCreateCommand(owner, self, node, C, queue, launch)

\* FillCommands, first part, for a nested graph: the commands of the nodes
\* order[i..], every node on the queue Q gives its chain.  [status, H, cmds]
RECURSIVE NestedCreateCommands(_, _, _, _, _, _, _, _)
RECURSIVE NestedCreateCommandsAfter(_, _, _, _, _, _, _, _, _)
NestedCreateCommandsAfter(r, n, owner, H, Q, lists, order, i, launch) ==
  IF r.status # "hipSuccess"
  THEN [status |-> r.status, H |-> [H EXCEPT ![n] = r.node], cmds |-> r.cmds]
  ELSE NestedCreateCommands(owner, [H EXCEPT ![n] = r.node], r.cmds, Q, lists,
                            order, i + 1, launch)

NestedCreateCommands(owner, H, C, Q, lists, order, i, launch) ==
  IF i > Len(order) THEN [status |-> "hipSuccess", H |-> H, cmds |-> C]
  ELSE NestedCreateCommandsAfter(
         LeafCreateCommand(owner, order[i], H[order[i]], C,
                           Q[ChainOf(lists, order[i])], launch),
         order[i], owner, H, Q, lists, order, i, launch)

\* The event wait list of a node: the commands of the nodes it waits for.
\* hipChildGraphNode::GetCommands gives the commands of the last node of the
\* nested graph's first chain.
RECURSIVE GetCommands(_)
GetCommands(node) ==
  IF node.type_ = "Graph"
  THEN LET g == node.params.childGraph_
           l == GetRunList(g.nodes, g.vertices_).parallelLists[1]
       IN GetCommands(g.nodes[l[Len(l)]])
  ELSE node.commands_

\* UpdateEventWaitLists that reaches no command.
WaitingCommands_None(node) == <<>>

\* The commands whose wait list UpdateEventWaitLists of a node sets:
\* hipGraphNode::UpdateEventWaitLists, and hipChildGraphNode's, which hands
\* the list to the first node of the nested graph's first chain.
RECURSIVE WaitingCommands(_)
WaitingCommands(node) ==
  IF node.type_ = "Graph"
  THEN LET g == node.params.childGraph_
           l == GetRunList(g.nodes, g.vertices_).parallelLists[1]
       IN WaitingCommands(g.nodes[l[1]])
  ELSE node.commands_

\* The wait lists of the nodes of one graph are set from its wait map.
UpdateEventWaitLists(H, C, V, waits) ==
  [c \in DOMAIN C |->
     IF \E n \in Range(V) : waits[n] # <<>> /\ Contains(WaitingCommands(H[n]), c)
     THEN LET n == CHOOSE n \in Range(V) :
                     waits[n] # <<>> /\ Contains(WaitingCommands(H[n]), c)
          IN [C[c] EXCEPT !.waitList =
                UNION {Range(GetCommands(H[d])) : d \in Range(waits[n])}]
     ELSE C[c]]

\* FillCommands, second part: the wait lists are set unless r is an error.
SetWaitLists(r, order, waits) ==
  IF r.status # "hipSuccess" THEN r
  ELSE [r EXCEPT !.cmds = UpdateEventWaitLists(r.H, r.cmds, order, waits)]

\* FillCommands(parallelLists, nodeWaitLists, levelOrder, root, end, queue)
\* for a nested graph: the chains get their queues, the nodes in level order
\* their commands, the commands their wait lists.  [status, H, cmds]
NestedFillCommands(owner, H, C, R, order, queue, index, launch) ==
  SetWaitLists(NestedCreateCommands(owner, H, C,
                                    UpdateQueue(R.parallelLists, queue, index)[1],
                                    R.parallelLists, order, 1, launch),
               order, R.waitLists)

\* The root and the end command FillCommands hands back (mk says which) are
\* bound to the ChildGraph node: <<commands_, cmds>>.
BindMarkers(self, C, queue, launch, mk) ==
  LET rootCommand == NewCommand("RootMarker", NULL, self, <<>>, queue, launch)
      endCommand == NewCommand("EndMarker", NULL, self, <<>>, queue, launch)
  IN CASE mk[1] /\ mk[2] ->
            <<<<Len(C) + 1, Len(C) + 2>>, C \o <<rootCommand, endCommand>>>>
       [] mk[1] /\ ~mk[2] -> <<<<Len(C) + 1>>, Append(C, rootCommand)>>
       [] ~mk[1] /\ mk[2] -> <<<<Len(C) + 1>>, Append(C, endCommand)>>
       [] OTHER -> <<<<>>, C>>

\* hipChildGraphNode::CreateCommand, after FillCommands gave f and the
\* commands b it handed back.
ChildGraphBind(node, f, b, queue, index) ==
  [status |-> f.status,
   node |-> [BaseCreateCommand(node, queue) EXCEPT
               !.params.childGraph_.nodes = f.H,
               !.commands_ = b[1]],
   cmds |-> b[2],
   index |-> index]

ChildGraphFill(self, node, f, queue, index, launch, mk) ==
  ChildGraphBind(node, f, BindMarkers(self, f.cmds, queue, launch, mk), queue, index)

ChildGraphSchedule(self, node, R, C, queue, index, launch, mk) ==
  ChildGraphFill(self, node,
                 NestedFillCommands(self, node.params.childGraph_.nodes, C, R,
                                    LevelOrder(node.params.childGraph_.nodes,
                                               node.params.childGraph_.vertices_),
                                    queue, index, launch),
                 queue, UpdateQueue(R.parallelLists, queue, index)[2], launch, mk)

\* hipChildGraphNode::CreateCommand: [status, node, cmds, index].
ChildGraphCreateCommand(self, node, C, queue, index, launch, mk) ==
  ChildGraphSchedule(self, node,
                     GetRunList(node.params.childGraph_.nodes,
                                node.params.childGraph_.vertices_),
                     C, queue, index, launch, mk)

\* virtual hipGraphNode::CreateCommand by kind: [status, node, cmds, index].
CreateCommand(self, node, C, queue, index, launch, mk) ==
  CASE node.type_ = "Memset" ->
         [index |-> index] @@ MemsetCreateCommand(NULL, self, node, C, queue, launch)
    [] node.type_ = "Kernel" ->
         [index |-> index] @@ KernelCreateCommand(NULL, self, node, C, queue, launch)
    [] node.type_ = "Host" ->
         [index |-> index] @@ HostCreateCommand(NULL, self, node, C, queue, launch)
    [] node.type_ = "Memcpy1D" ->
         [index |-> index] @@ Memcpy1DCreateCommand(NULL, self, node, C, queue, launch)
    [] node.type_ = "Graph" ->
         ChildGraphCreateCommand(self, node, C, queue, index, launch, mk)
    [] OTHER ->
         [index |-> index] @@ EmptyCreateCommand(NULL, self, node, C, queue, launch)

\* FillCommands, first part, for the plan's graph: the commands of the nodes
\* order[i..], every node on the queue Q gives its chain.
\* [status, H, cmds, index, at]: at is the position in order of the node
\* whose CreateCommand failed, 0 when none did.
RECURSIVE CreateCommands(_, _, _, _, _, _, _, _, _)
\* The loop goes on after the node n, whose CreateCommand gave r, unless r is
\* an error.
RECURSIVE CreateCommandsAfter(_, _, _, _, _, _, _, _, _)
CreateCommandsAfter(r, n, H, Q, lists, order, i, launch, mk) ==
  IF r.status # "hipSuccess"
  THEN [status |-> r.status, H |-> [H EXCEPT ![n] = r.node],
        cmds |-> r.cmds, index |-> r.index, at |-> i]
  ELSE CreateCommands([H EXCEPT ![n] = r.node], r.cmds, Q, lists, order,
                      i + 1, r.index, launch, mk)

CreateCommands(H, C, Q, lists, order, i, index, launch, mk) ==
  IF i > Len(order)
  THEN [status |-> "hipSuccess", H |-> H, cmds |-> C, index |-> index, at |-> 0]
  ELSE CreateCommandsAfter(
         CreateCommand(order[i], H[order[i]], C, Q[ChainOf(lists, order[i])],
                       index, launch, mk),
         order[i], H, Q, lists, order, i, launch, mk)

\* FillCommands(parallelLists, nodeWaitLists, levelOrder, root, end, queue)
\* for the plan's graph.
FillCommands(H, C, lists, waits, order, queue, index, launch, mk) ==
  SetWaitLists(CreateCommands(H, C, UpdateQueue(lists, queue, index)[1], lists,
                              order, 1, UpdateQueue(lists, queue, index)[2],
                              launch, mk),
               order, waits)

\* virtual hipGraphNode::GetNumParallelQueues by kind, a size_t: for a
\* ChildGraph node the sum over the nested nodes in level order plus
\* parallelLists_.size() - 1.
RECURSIVE GetNumParallelQueues(_)
RECURSIVE SumQueues(_, _, _)
GetNumParallelQueues(node) ==
  IF node.type_ = "Graph"
  THEN LET g == node.params.childGraph_
       IN (SumQueues(g.nodes, LevelOrder(g.nodes, g.vertices_), 1)
           + (Len(GetRunList(g.nodes, g.vertices_).parallelLists) - 1)) % SizeT
  ELSE 0

SumQueues(H, order, i) ==
  IF i > Len(order) THEN 0
  ELSE (GetNumParallelQueues(H[order[i]]) + SumQueues(H, order, i + 1)) % SizeT

\* virtual hipGraphNode::EnqueueCommands by kind: the commands a node submits,
\* in order.
RECURSIVE EnqueueList(_)
RECURSIVE EnqueueNested(_, _, _)
EnqueueList(node) ==
  IF node.type_ = "Graph"
  THEN LET g == node.params.childGraph_
       IN (IF Len(node.commands_) = 1 THEN <<node.commands_[1]>> ELSE <<>>)
          \o EnqueueNested(g.nodes, LevelOrder(g.nodes, g.vertices_), 1)
          \o (IF Len(node.commands_) = 2 THEN <<node.commands_[2]>> ELSE <<>>)
  ELSE node.commands_

EnqueueNested(H, order, i) ==
  IF i > Len(order) THEN <<>>
  ELSE EnqueueList(H[order[i]]) \o EnqueueNested(H, order, i + 1)

\* ---------------------------------------------------------------- actions
Running == ~aborted /\ ops < MaxOps

Op(name, p, c, ret) == [op |-> name, p |-> p, c |-> c, ret |-> ret]

LevelsBounded(H) == \A a \in Heap : H[a].level_ <= MaxLevel

\* A node of the given kind is constructed at a free address (a fresh one or
\* one freed earlier) and added to the graph: ihipGraph::AddNode.
CreateNode(a, type, p) ==
  /\ Running
  /\ a \in Addr \ nodeSet_
  /\ a <= brk + 1
  /\ nodes' = [nodes EXCEPT ![a] = NewNode(type, nextID, p)]
  /\ nodeSet_' = nodeSet_ \cup {a}
  /\ vertices_' = Append(vertices_, a)
  /\ nextID' = nextID + 1
  /\ brk' = Max(brk, a)
  /\ ops' = ops + 1
  /\ last' = Op("CreateNode", a, NULL, TRUE)
  /\ UNCHANGED <<aborted, planVars, regVars, stack>>

\* p->AddEdge(c) on two live nodes; the caller keeps the graph acyclic.
\* When the level propagation runs into a dangling child the write goes to
\* freed memory: it is lost, or the process faults.
CallAddEdge(p, c, fault) ==
  /\ Running
  /\ p \in nodeSet_ /\ c \in nodeSet_
  /\ p \notin Reach(nodes, nodeSet_, c)
  /\ Count(nodes[p].edges_, c) < MaxDup
  /\ fault => ~(Reach(nodes, nodeSet_, c) \subseteq nodeSet_)
  /\ IF fault
     THEN /\ aborted' = TRUE
          /\ UNCHANGED nodes
          /\ last' = Op("Fault", p, c, FALSE)
     ELSE /\ LevelsBounded(AddEdge(nodes, nodeSet_, p, c))
          /\ nodes' = AddEdge(nodes, nodeSet_, p, c)
          /\ last' = Op("AddEdge", p, c, TRUE)
          /\ UNCHANGED aborted
  /\ ops' = ops + 1
  /\ UNCHANGED <<nodeSet_, vertices_, nextID, brk, planVars, regVars, stack>>

\* p->RemoveEdge(c) on two live nodes.
CallRemoveEdge(p, c) ==
  /\ Running
  /\ p \in nodeSet_ /\ c \in nodeSet_
  /\ nodes' = RemoveEdge(nodes, p, c)[2]
  /\ last' = Op("RemoveEdge", p, c, RemoveEdge(nodes, p, c)[1])
  /\ ops' = ops + 1
  /\ UNCHANGED <<nodeSet_, vertices_, nextID, brk, aborted, planVars, regVars, stack>>

\* p->RemoveEdge(c) followed immediately by p->AddEdge(c), for an edge p -> c.
\* The level c had before the pair is kept in last.
CallRemoveAddEdge(p, c) ==
  /\ Running
  /\ p \in nodeSet_ /\ c \in nodeSet_
  /\ Contains(nodes[p].edges_, c)
  /\ Reach(nodes, nodeSet_, c) \subseteq nodeSet_
  /\ LET H1 == RemoveEdge(nodes, p, c)[2]
         H2 == AddEdge(H1, nodeSet_, p, c)
     IN /\ LevelsBounded(H2)
        /\ nodes' = H2
  /\ last' = Op("RemoveAddEdge", p, c, nodes[c].level_)
  /\ ops' = ops + 1
  /\ UNCHANGED <<nodeSet_, vertices_, nextID, brk, aborted, planVars, regVars, stack>>

\* ihipGraph::RemoveNode: the node leaves the vertex list and is deleted.
\* A checked build stops at the iterator the destructor's second loop
\* invalidates, and a dangling child makes the first loop write to freed
\* memory: in both cases the process may end instead.
CallRemoveNode(n, fault) ==
  /\ Running
  /\ n \in nodeSet_
  /\ fault => \/ nodes[n].dependencies_ # <<>>
              \/ ~(Range(nodes[n].edges_) \subseteq nodeSet_)
  /\ IF fault
     THEN /\ aborted' = TRUE
          /\ last' = Op("Fault", n, NULL, FALSE)
          /\ UNCHANGED <<nodes, nodeSet_, vertices_>>
     ELSE /\ nodes' = Destructor(nodes, nodeSet_, n)
          /\ nodeSet_' = nodeSet_ \ {n}
          /\ vertices_' = RemoveAll(vertices_, n)
          /\ last' = Op("RemoveNode", n, NULL, TRUE)
          /\ UNCHANGED aborted
  /\ ops' = ops + 1
  /\ UNCHANGED <<nextID, brk, planVars, regVars, stack>>

\* GetRootNodes() / GetLeafNodes() of the graph; the result is kept in last.
CallGetRootNodes ==
  /\ Running
  /\ last' = Op("GetRootNodes", NULL, NULL, GetRootNodes(nodes, vertices_))
  /\ ops' = ops + 1
  /\ UNCHANGED <<graphVars, aborted, planVars, regVars, stack>>

CallGetLeafNodes ==
  /\ Running
  /\ last' = Op("GetLeafNodes", NULL, NULL, GetLeafNodes(nodes, vertices_))
  /\ ops' = ops + 1
  /\ UNCHANGED <<graphVars, aborted, planVars, regVars, stack>>

\* GetRunList() of the graph; the result is kept in last.
CallGetRunList ==
  /\ Running
  /\ vertices_ # <<>>
  /\ IsGraph(nodes, vertices_)
  /\ last' = Op("GetRunList", NULL, NULL, GetRunList(nodes, vertices_))
  /\ ops' = ops + 1
  /\ UNCHANGED <<graphVars, aborted, planVars, regVars, stack>>

\* hipGraphMemsetNodeSetParams on a Memset node of the graph.
CallSetParams(n, q) ==
  /\ Running
  /\ n \in Range(vertices_)
  /\ nodes[n].type_ = "Memset"
  /\ nodes' = [nodes EXCEPT ![n] = MemsetSetParams(nodes[n], q)[2]]
  /\ last' = Op("SetParams", n, NULL, MemsetSetParams(nodes[n], q)[1])
  /\ ops' = ops + 1
  /\ UNCHANGED <<nodeSet_, vertices_, nextID, brk, aborted, planVars, regVars, stack>>

\* hipGraphKernelNodeSetParams on a Kernel node of the graph.  The allocation
\* numbered failAt fails.  When the new function has fewer parameters the
\* pointer array is shrunk before the surplus buffers are freed through it:
\* the accesses past its end pass unnoticed, or the process faults.
CallKernelSetParams(n, q, failAt, fault) ==
  /\ Running
  /\ n \in Range(vertices_)
  /\ nodes[n].type_ = "Kernel"
  /\ nodes[n].params.kernelParams # NullArray
  /\ \A i \in DOMAIN nodes[n].params.kernelParams :
       nodes[n].params.kernelParams[i] # NullBuffer
  /\ fault => /\ KernelSetParams(nodes[n], q, failAt)[1] = "hipSuccess"
              /\ KernelSetParams(nodes[n], q, failAt)[2].params.numParams_ <
                   nodes[n].params.numParams_
  /\ IF fault
     THEN /\ aborted' = TRUE
          /\ UNCHANGED nodes
          /\ last' = Op("Fault", n, NULL, FALSE)
     ELSE /\ nodes' = [nodes EXCEPT ![n] = KernelSetParams(nodes[n], q, failAt)[2]]
          /\ last' = Op("SetParams", n, NULL, KernelSetParams(nodes[n], q, failAt)[1])
          /\ UNCHANGED aborted
  /\ ops' = ops + 1
  /\ UNCHANGED <<nodeSet_, vertices_, nextID, brk, planVars, regVars, stack>>

\* hipChildGraphNode::SetParams(const ihipGraph*) on a ChildGraph node of
\* the graph.  A read past the end of the node vector of the nested graph
\* ends the process, or yields some object whose SetParams returns some
\* status.
CallChildGraphSetParams(n, g, fault, st) ==
  /\ Running
  /\ n \in Range(vertices_)
  /\ nodes[n].type_ = "Graph"
  /\ LET r == ChildGraphSetParams(nodes[n].params.childGraph_, g.childGraph_, 1)
     IN /\ (fault \/ st # "hipSuccess") => r[1] = "OutOfBounds"
        /\ IF fault
           THEN /\ aborted' = TRUE
                /\ UNCHANGED nodes
                /\ last' = Op("Fault", n, NULL, FALSE)
           ELSE /\ nodes' = [nodes EXCEPT ![n].params.childGraph_ = r[2]]
                /\ last' = Op("SetParams", n, NULL,
                              IF r[1] = "OutOfBounds" THEN st ELSE r[1])
                /\ UNCHANGED aborted
  /\ ops' = ops + 1
  /\ UNCHANGED <<nodeSet_, vertices_, nextID, brk, planVars, regVars, stack>>

\* clone() of the graph; a graph that holds a dangling pointer is not cloned.
CallClone ==
  /\ Running
  /\ clonedGraph = <<>>
  /\ vertices_ # <<>>
  /\ Referenced(nodes, Range(vertices_)) \subseteq Range(vertices_)
  /\ nodes' = GraphClone(nodes, vertices_)
  /\ clonedNodes_' = CloneMap(vertices_)
  /\ clonedGraph' = MapSeq(vertices_, LAMBDA n : CloneMap(vertices_)[n])
  /\ nodeSet_' = nodeSet_ \cup {CloneMap(vertices_)[n] : n \in Range(vertices_)}
  /\ last' = Op("Clone", NULL, NULL, TRUE)
  /\ ops' = ops + 1
  /\ graphSet_' = graphSet_ \cup {CloneHandle}
  /\ UNCHANGED <<vertices_, nextID, brk, aborted, execVars, graphExecSet_, threadVars, stack>>

\* hipGraphExec::Init on an error of the node at position at: ReleaseCommand
\* of every node whose command was created before it.  <<H, cmds>>
RECURSIVE ReleaseCreated(_, _, _, _, _)
ReleaseCreatedAfter(r, H, C, order, i, at) ==
  ReleaseCreated([H EXCEPT ![order[i]] = r[1]], r[2], order, i + 1, at)

ReleaseCreated(H, C, order, i, at) ==
  IF i >= at THEN <<H, C>>
  ELSE ReleaseCreatedAfter(ReleaseCommand(H[order[i]], C), H, C, order, i, at)

\* The heap and the commands hipGraphExec::Init leaves: those of f, after
\* the release r when f is an error.
ExecInitLeaves(f, r) ==
  /\ nodes' = IF f.status = "hipSuccess" THEN f.H ELSE r[1]
  /\ cmds' = IF f.status = "hipSuccess" THEN f.cmds ELSE r[2]

\* hipGraphExec::Init, after the commands were created with result f: the
\* plan is usable when f is no error.  On an error the hipGraphExec object
\* and its clones exist until the object is destroyed, and it is no plan
\* that can be launched or updated.
ExecInit(f, M, V1, R, order, numQueues) ==
  /\ IF f.status = "Fault"
     THEN UNCHANGED <<nodes, cmds, clonedGraph, clonedNodes_, nodeSet_, exec,
                      graphExecSet_>>
     ELSE /\ ExecInitLeaves(f, ReleaseCreated(f.H, f.cmds, order, 1, f.at))
          /\ clonedGraph' = V1
          /\ clonedNodes_' = M
          /\ nodeSet_' = nodeSet_ \cup Range(V1)
          /\ graphExecSet_' = graphExecSet_ \cup {ExecHandle}
          /\ exec' = [state |-> IF f.status = "hipSuccess"
                                THEN "Instantiated" ELSE "Failed",
                      parallelLists_ |-> R.parallelLists,
                      levelOrder_ |-> order,
                      nodeWaitLists_ |-> R.waitLists,
                      parallelQueues_ |-> numQueues,
                      currentQueueIndex_ |-> 0]
  /\ last' = Op("Instantiate", NULL, NULL, f.status)
  /\ aborted' = (f.status = "Fault")

\* hipGraphExec::Init for the scheduled clone: CreateQueues, then the
\* commands in level order, the chains on their queues.
NumQueues(H1, R, order) ==
  (Len(R.parallelLists) - 1 + SumQueues(H1, order, 1)) % SizeT

\* What a call leaves that ended the process on the way.
Faulted ==
  [status |-> "Fault", H |-> nodes, cmds |-> cmds, index |-> 0, at |-> 0]

ExecCreated(H1, R, order, mk) ==
  CreateCommands(H1, cmds, UpdateQueue(R.parallelLists, 0, 0)[1],
                 R.parallelLists, order, 1,
                 UpdateQueue(R.parallelLists, 0, 0)[2], 0, mk)

\* CreateQueues fills parallelQueues_ with numQueues new queues, which ends
\* the process when they cannot be allocated.  GetAvailableQueue reads
\* parallelQueues_[currentQueueIndex_++] unchecked: past the end of the
\* vector the read yields whatever lies there, or ends the process.
ExecOutcome(H1, R, order, mk, fault) ==
  IF fault THEN Faulted ELSE ExecCreated(H1, R, order, mk)

ExecFaults(H1, R, order, mk) ==
  IF NumQueues(H1, R, order) \notin Queues THEN {TRUE}
  ELSE IF ExecCreated(H1, R, order, mk).index > NumQueues(H1, R, order)
  THEN {FALSE, TRUE}
  ELSE {FALSE}

ExecCreate(H1, M, V1, R, order, mk) ==
  \E fault \in ExecFaults(H1, R, order, mk) :
    ExecInit(ExecOutcome(H1, R, order, mk, fault), M, V1, R, order,
             NumQueues(H1, R, order))

\* The clone is scheduled: GetRunList and LevelOrder.
ExecSchedule(H1, M, V1, mk) ==
  ExecCreate(H1, M, V1, GetRunList(H1, V1), LevelOrder(H1, V1), mk)

\* hipGraphInstantiate: the graph is cloned, the clone is scheduled, and
\* hipGraphExec::Init creates the queues and, in level order, the commands.
\* When a command cannot be created there is no usable plan.  A null memory
\* object dereferenced on the way ends the process.
CallInstantiate(mk) ==
  /\ Running
  /\ exec.state = "Uninstantiated"
  /\ clonedGraph = <<>>
  /\ vertices_ # <<>>
  /\ IsGraph(nodes, vertices_)
  /\ (mk[1] \/ mk[2]) => \E n \in Range(vertices_) : nodes[n].type_ = "Graph"
  /\ ExecSchedule(GraphClone(nodes, vertices_), CloneMap(vertices_),
                  MapSeq(vertices_, LAMBDA n : CloneMap(vertices_)[n]), mk)
  /\ ops' = ops + 1
  /\ UNCHANGED <<vertices_, nextID, brk, run, queues, graphSet_, threadVars, stack>>

\* delete of the nodes seq[i..], one after the other.  unsafe: a destructor
\* walked a dependency list it erased from, or wrote through a dangling
\* pointer.  [H, unsafe]
RECURSIVE DeleteNodes(_, _, _, _, _)
DeleteNodes(H, L, seq, i, unsafe) ==
  IF i > Len(seq) THEN [H |-> H, unsafe |-> unsafe]
  ELSE DeleteNodes(Destructor(H, L, seq[i]), L \ {seq[i]}, seq, i + 1,
                   \/ unsafe
                   \/ H[seq[i]].dependencies_ # <<>>
                   \/ ~(Range(H[seq[i]].edges_) \subseteq L))

\* The orders in which the elements of s can be visited.
Perms(s) ==
  {p \in [DOMAIN s -> Range(s)] : \A i, j \in DOMAIN s : p[i] = p[j] => i = j}

\* hipGraphExec::~hipGraphExec with the deletions giving d: the queues are
\* released, the clones deleted, the object leaves the registry.  The
\* commands are not touched.
ExecDestroyed(d, fault) ==
  /\ fault => d.unsafe
  /\ IF fault
     THEN /\ aborted' = TRUE
          /\ last' = Op("Fault", NULL, NULL, FALSE)
          /\ UNCHANGED <<nodes, nodeSet_, clonedGraph, clonedNodes_, exec,
                          graphExecSet_>>
     ELSE /\ nodes' = d.H
          /\ graphExecSet_' = graphExecSet_ \ {ExecHandle}
          /\ nodeSet_' = nodeSet_ \ Range(clonedGraph)
          /\ clonedGraph' = <<>>
          /\ clonedNodes_' = <<>>
          /\ exec' = [NoExec EXCEPT !.state = "Destroyed"]
          /\ last' = Op("ExecDestroy", NULL, NULL, TRUE)
          /\ UNCHANGED aborted

\* hipGraphExecDestroy: delete of the hipGraphExec object.  clonedNodes_ is
\* an unordered map: the clones are deleted in the order seq it yields them.
CallExecDestroy(seq, fault) ==
  /\ Running
  /\ exec.state \in {"Instantiated", "Failed"}
  /\ run.pc = "idle"
  /\ seq \in Perms(clonedGraph)
  /\ ExecDestroyed(DeleteNodes(nodes, nodeSet_, seq, 1, FALSE), fault)
  /\ ops' = ops + 1
  /\ UNCHANGED <<vertices_, nextID, brk, run, cmds, queues, graphSet_, threadVars, stack>>

\* hipGraphExec::Run after the commands of the launch were created with
\* result f: the chains are enqueued next, unless f is an error.
RunFilled(f) ==
  /\ nodes' = f.H
  /\ cmds' = f.cmds
  /\ IF f.status = "hipSuccess"
     THEN /\ run' = [pc |-> "enqueue", chain |-> 1, idx |-> 1,
                     launch |-> run.launch + 1, failed |-> FALSE,
                     ret |-> "pending"]
          /\ exec' = [exec EXCEPT !.currentQueueIndex_ = f.index]
     ELSE /\ run' = [run EXCEPT !.launch = @ + 1, !.failed = FALSE,
                                !.ret = f.status]
          /\ UNCHANGED exec
  /\ last' = Op("Run", NULL, NULL, f.status)
  /\ aborted' = (f.status = "Fault")

RunFill(mk) ==
  FillCommands(nodes, cmds, exec.parallelLists_, exec.nodeWaitLists_,
               exec.levelOrder_, 0, 0, run.launch + 1, mk)

RunFaults(mk) ==
  IF RunFill(mk).index > exec.parallelQueues_ THEN {FALSE, TRUE} ELSE {FALSE}

\* hipGraphExec::Run, first part: new commands are created for the launch
\* from the cloned nodes and get their wait lists.  A queue read past the
\* end of parallelQueues_ may end the process.
CallRun(mk) ==
  /\ Running
  /\ exec.state = "Instantiated"
  /\ run.pc = "idle"
  /\ run.launch < MaxLaunches
  /\ (mk[1] \/ mk[2]) => \E n \in Range(clonedGraph) : nodes[n].type_ = "Graph"
  /\ \E fault \in RunFaults(mk) :
       RunFilled(IF fault THEN Faulted ELSE RunFill(mk))
  /\ ops' = ops + 1
  /\ UNCHANGED <<nodeSet_, vertices_, nextID, brk, cloneVars, queues, regVars, stack>>

\* The commands L[i..] are submitted to their queues.
RECURSIVE Submit(_, _, _, _)
Submit(Q, C, L, i) ==
  IF i > Len(L) THEN Q
  ELSE Submit([Q EXCEPT ![C[L[i]].queue] = Append(@, L[i])], C, L, i + 1)

\* hipGraphHostNode::EnqueueCommands: the callback is installed on
\* commands_[0] (ok: setCallback succeeded; a failure is only logged), that
\* command is enqueued, and a new marker that waits for it is enqueued
\* behind it on the same queue and released.  [cmds, queues, failed]
HostEnqueueCommands(node, C, Q, ok) ==
  IF node.commands_ = <<>> THEN [cmds |-> C, queues |-> Q, failed |-> FALSE]
  ELSE LET c0 == node.commands_[1]
           block == [NewCommand("Marker", NULL, NULL, node.params, C[c0].queue,
                                C[c0].launch)
                       EXCEPT !.waitList = {c0}, !.status = "queued",
                              !.released = 1]
       IN [cmds |-> Append([C EXCEPT ![c0].status = "queued",
                                     ![c0].callback = IF ok THEN "set" ELSE @],
                           block),
           queues |-> [Q EXCEPT ![C[c0].queue] = @ \o <<c0, Len(C) + 1>>],
           failed |-> ~ok]

\* The commands EnqueueCommands of the node releases after it has enqueued
\* them: hipGraphNode::EnqueueCommands releases every command of commands_,
\* hipGraphMemcpyNode1D::EnqueueCommands (the symbol copies inherit it) and
\* hipChildGraphNode::EnqueueCommands release none of their own.
RECURSIVE ReleaseList(_)
RECURSIVE ReleaseNested(_, _, _)
ReleaseList(node) ==
  IF node.type_ = "Graph"
  THEN LET g == node.params.childGraph_
       IN ReleaseNested(g.nodes, LevelOrder(g.nodes, g.vertices_), 1)
  ELSE IF node.type_ \in {"Memcpy1D", "MemcpyFromSymbol", "MemcpyToSymbol"}
  THEN <<>>
  ELSE node.commands_

ReleaseNested(H, order, i) ==
  IF i > Len(order) THEN <<>>
  ELSE ReleaseList(H[order[i]]) \o ReleaseNested(H, order, i + 1)

\* virtual hipGraphNode::EnqueueCommands by kind, a void function: what
\* it leaves, and whether it logged a failure.  [cmds, queues, failed]
EnqueueCommands(node, C, Q, ok) ==
  IF node.type_ = "Host" THEN HostEnqueueCommands(node, C, Q, ok)
  ELSE LET L == EnqueueList(node)
           R == ReleaseList(node)
       IN [cmds |-> [c \in DOMAIN C |->
                       IF Contains(L, c)
                       THEN [C[c] EXCEPT !.status = "queued",
                                         !.released = @ + Count(R, c)]
                       ELSE C[c]],
           queues |-> Submit(Q, C, L, 1),
           failed |-> FALSE]

\* hipGraphExec::Run after EnqueueCommands of the node n of the chain l left
\* e: the loop goes on; after the last node of the last chain the queue
\* cursor is reset and Run returns hipSuccess.
RunEnqueued(n, l, e) ==
  /\ cmds' = e.cmds
  /\ queues' = e.queues
  /\ IF run.idx < Len(l)
     THEN run' = [run EXCEPT !.idx = @ + 1, !.failed = @ \/ e.failed]
          /\ UNCHANGED exec
     ELSE IF run.chain < Len(exec.parallelLists_)
     THEN run' = [run EXCEPT !.chain = @ + 1, !.idx = 1, !.failed = @ \/ e.failed]
          /\ UNCHANGED exec
     ELSE /\ run' = [run EXCEPT !.pc = "idle", !.chain = 0, !.idx = 0,
                                !.failed = @ \/ e.failed, !.ret = "hipSuccess"]
          /\ exec' = [exec EXCEPT !.currentQueueIndex_ = 0]
  /\ last' = Op("Enqueue", n, NULL, TRUE)

\* hipGraphExec::Run, one step of the loop: EnqueueCommands of the next node
\* of the current chain.  ok: the node's setCallback, if it makes one,
\* succeeds.
RunEnqueueWith(ok) ==
  /\ ~aborted
  /\ run.pc = "enqueue"
  /\ LET l == exec.parallelLists_[run.chain]
     IN /\ ~ok => (nodes[l[run.idx]].type_ = "Host"
                   /\ nodes[l[run.idx]].commands_ # <<>>)
        /\ RunEnqueued(l[run.idx], l,
                       EnqueueCommands(nodes[l[run.idx]], cmds, queues, ok))
  /\ UNCHANGED <<graphVars, aborted, ops, cloneVars, regVars, stack>>

RunEnqueue == RunEnqueueWith(TRUE)

\* The device starts a submitted command once every command submitted to
\* its queue before it and every command of its wait list has completed.
DeviceStart(c) ==
  /\ c \in DOMAIN cmds
  /\ cmds[c].status = "queued"
  /\ LET q == queues[cmds[c].queue]
     IN \A i \in 1..(IndexOf(q, c) - 1) : cmds[q[i]].status = "complete"
  /\ \A w \in cmds[c].waitList : cmds[w].status = "complete"
  /\ cmds' = [cmds EXCEPT ![c].status = "running"]
  /\ UNCHANGED <<graphVars, aborted, ops, last, cloneVars, exec, run, queues, regVars, stack>>

\* The device completes a running command.
DeviceComplete(c) ==
  /\ c \in DOMAIN cmds
  /\ cmds[c].status = "running"
  /\ cmds' = [cmds EXCEPT ![c].status = "complete"]
  /\ UNCHANGED <<graphVars, aborted, ops, last, cloneVars, exec, run, queues, regVars, stack>>

\* hipGraphHostNode::Callback, registered with setCallback(CL_COMPLETE, ...):
\* it is called once the command's execution status has changed to
\* CL_COMPLETE, and calls the host function of the node's parameters.
CallbackStart(c) ==
  /\ c \in DOMAIN cmds
  /\ cmds[c].status = "complete"
  /\ cmds[c].callback = "set"
  /\ cmds' = [cmds EXCEPT ![c].callback = "running"]
  /\ UNCHANGED <<graphVars, aborted, ops, last, cloneVars, exec, run, queues, regVars, stack>>

\* The host function returns.
CallbackReturn(c) ==
  /\ c \in DOMAIN cmds
  /\ cmds[c].callback = "running"
  /\ cmds' = [cmds EXCEPT ![c].callback = "done"]
  /\ UNCHANGED <<graphVars, aborted, ops, last, cloneVars, exec, run, queues, regVars, stack>>

\* hipGraphExecUpdate from index i on: SetParams of the plan's node at every
\* index with the new graph's node at that index.  <<status, H>>
RECURSIVE UpdateFrom(_, _, _, _)
UpdateFrom(H, old, new, i) ==
  IF i > Len(old) THEN <<"hipSuccess", H>>
  ELSE LET r == SetParams(H[old[i]], H[new[i]])
           H1 == [H EXCEPT ![old[i]] = r[2]]
       IN IF r[1] # "hipSuccess" THEN <<r[1], H1>>
          ELSE UpdateFrom(H1, old, new, i + 1)

\* hipGraphExecUpdate: the node counts and the kinds at every index must
\* match before any node is updated.
Update(H, old, new) ==
  IF Len(old) # Len(new) THEN <<"hipErrorGraphExecUpdateFailure", H>>
  ELSE IF \E i \in DOMAIN old : H[old[i]].type_ # H[new[i]].type_
  THEN <<"hipErrorGraphExecUpdateFailure", H>>
  ELSE LET r == UpdateFrom(H, old, new, 1)
       IN IF r[1] \in {"hipSuccess", "OutOfBounds"} THEN r
          ELSE <<"hipErrorGraphExecUpdateFailure", r[2]>>

\* hipGraphExecUpdate(plan, graph) with the graph as it is now.  A read past
\* the end of a nested graph's node vector ends the process, or yields some
\* object whose SetParams returns some status.
CallUpdate(fault, st) ==
  /\ Running
  /\ exec.state = "Instantiated"
  /\ run.pc = "idle"
  /\ IsGraph(nodes, vertices_)
  /\ LET r == Update(nodes, exec.levelOrder_, LevelOrder(nodes, vertices_))
     IN /\ (fault \/ st # "hipSuccess") => r[1] = "OutOfBounds"
        /\ IF fault
           THEN /\ aborted' = TRUE
                /\ UNCHANGED nodes
                /\ last' = Op("Fault", NULL, NULL, FALSE)
           ELSE /\ nodes' = r[2]
                /\ last' = Op("Update", NULL, NULL,
                              IF r[1] = "OutOfBounds" THEN st ELSE r[1])
                /\ UNCHANGED aborted
  /\ ops' = ops + 1
  /\ UNCHANGED <<nodeSet_, vertices_, nextID, brk, cloneVars, exec, run, cmds, queues, regVars,
                 stack>>

Init ==
  /\ nodes = [a \in Heap |-> FreedNode]
  /\ nodeSet_ = {}
  /\ vertices_ = <<>>
  /\ nextID = 0
  /\ brk = 0
  /\ aborted = FALSE
  /\ ops = 0
  /\ last = Op("None", NULL, NULL, TRUE)
  /\ clonedGraph = <<>>
  /\ clonedNodes_ = <<>>
  /\ exec = NoExec
  /\ run = IdleRun
  /\ cmds = <<>>
  /\ queues = [q \in Queues |-> <<>>]
  /\ graphSet_ = {GraphHandle}
  /\ graphExecSet_ = {}
  /\ locks = [k \in Registries |-> NoThread]
  /\ threads = [t \in Threads |-> IdleThread]
  /\ stack = <<>>

Next ==
  \/ \E a \in Addr : CreateNode(a, "Empty", <<>>)
  \/ \E p, c \in Addr, f \in BOOLEAN : CallAddEdge(p, c, f)
  \/ \E p, c \in Addr : CallRemoveEdge(p, c)
  \/ \E p, c \in Addr : CallRemoveAddEdge(p, c)
  \/ \E n \in Addr, f \in BOOLEAN : CallRemoveNode(n, f)
  \/ CallGetRootNodes
  \/ CallGetLeafNodes
  \/ CallGetRunList

Spec == Init /\ [][Next]_vars

\* The edits of one graph without node destruction.
NextEdges ==
  \/ \E a \in Addr : CreateNode(a, "Empty", <<>>)
  \/ \E p, c \in Addr : CallAddEdge(p, c, FALSE)
  \/ \E p, c \in Addr : CallRemoveEdge(p, c)
  \/ \E p, c \in Addr : CallRemoveAddEdge(p, c)
  \/ CallGetRootNodes
  \/ CallGetLeafNodes
  \/ CallGetRunList

SpecEdges == Init /\ [][NextEdges]_vars

\* The inputs of the node constructors.
MemsetInputs == {MemsetParams(1, 1, 2, 1), MemsetParams(2, 4, 1, 2)}

ChildGraphOf(ps) ==
  [childGraph_ |->
     [nodes |-> [i \in DOMAIN ps |-> NewNode("Memset", 0, ps[i])],
      vertices_ |-> [i \in DOMAIN ps |-> i]]]

ChildGraphInputs ==
  {ChildGraphOf(<<MemsetParams(1, 1, 2, 1)>>),
   ChildGraphOf(<<MemsetParams(2, 4, 1, 2), MemsetParams(1, 1, 2, 1)>>)}

\* A graph is built, cloned once, and edited further.
MaxCloned == 3
MaxCloneOps == 6

NextClone ==
  \/ \E a \in 1..MaxCloned :
       ops < MaxCloneOps /\ CreateNode(a, "Empty", <<>>)
  \/ \E a \in 1..MaxCloned, q \in MemsetInputs :
       ops < MaxCloneOps /\ CreateNode(a, "Memset", q)
  \/ \E p, c \in Addr :
       ops < MaxCloneOps /\ CallAddEdge(p, c, FALSE)
  \/ \E p, c \in Addr :
       ops < MaxCloneOps /\ CallRemoveEdge(p, c)
  \/ \E n \in Addr :
       ops < MaxCloneOps /\ CallRemoveNode(n, FALSE)
  \/ \E n \in Addr, q \in MemsetInputs :
       ops < MaxCloneOps /\ CallSetParams(n, q)
  \/ ops < MaxCloneOps /\ CallClone

SpecClone == Init /\ [][NextClone]_vars

\* A graph of Empty and Memset nodes is built, instantiated, edited further
\* and launched while the device works through the queues.
MaxExecNodes == 3
MaxExecOps == 7
NoMarkers == <<FALSE, FALSE>>

NextExec ==
  \/ \E a \in 1..MaxExecNodes :
       ops < MaxExecOps /\ CreateNode(a, "Empty", <<>>)
  \/ \E a \in 1..MaxExecNodes, q \in MemsetInputs :
       ops < MaxExecOps /\ CreateNode(a, "Memset", q)
  \/ \E p, c \in Addr :
       ops < MaxExecOps /\ CallAddEdge(p, c, FALSE)
  \/ ops < MaxExecOps /\ CallInstantiate(NoMarkers)
  \/ ops < MaxExecOps /\ CallRun(NoMarkers)
  \/ RunEnqueue
  \/ \E c \in DOMAIN cmds : DeviceStart(c)
  \/ \E c \in DOMAIN cmds : DeviceComplete(c)

SpecExec == Init /\ [][NextExec]_vars

\* A graph with Memset and ChildGraph nodes is built, instantiated, edited
\* further, and the plan is updated from it.
MaxUpdateNodes == 2
MaxUpdateOps == 6

NextUpdate ==
  \/ \E a \in 1..MaxUpdateNodes, q \in MemsetInputs :
       ops < MaxUpdateOps /\ CreateNode(a, "Memset", q)
  \/ \E a \in 1..MaxUpdateNodes, g \in ChildGraphInputs :
       ops < MaxUpdateOps /\ CreateNode(a, "Graph", g)
  \/ \E p, c \in Addr :
       ops < MaxUpdateOps /\ CallAddEdge(p, c, FALSE)
  \/ \E n \in Addr :
       ops < MaxUpdateOps /\ CallRemoveNode(n, FALSE)
  \/ \E n \in Addr, q \in MemsetInputs :
       ops < MaxUpdateOps /\ CallSetParams(n, q)
  \/ \E mk \in BOOLEAN \X BOOLEAN :
       ops < MaxUpdateOps /\ CallInstantiate(mk)
  \/ \E mk \in BOOLEAN \X BOOLEAN :
       ops < MaxUpdateOps /\ CallRun(mk)
  \/ ops < MaxUpdateOps /\ RunEnqueue
  \/ \E f \in BOOLEAN, st \in {"hipSuccess", "hipErrorInvalidValue"} :
       ops < MaxUpdateOps /\ CallUpdate(f, st)

SpecUpdate == Init /\ [][NextUpdate]_vars

\* A Memset node whose destination is no device memory: the constructor of
\* hipGraphMemsetNode stores the parameters it is given as they are.
MemsetNoDevice == [MemsetParams(1, 1, 2, 1) EXCEPT !.dst = NULL]

\* A graph with Memset and ChildGraph nodes, some of whose commands cannot
\* be created, is built and instantiated, and the hipGraphExec object is
\* destroyed.
MaxInitNodes == 2
MaxInitOps == 5

InitChildGraphInputs ==
  ChildGraphInputs \cup {ChildGraphOf(<<MemsetParams(1, 1, 2, 1), MemsetNoDevice>>)}

NextInit ==
  \/ \E a \in 1..MaxInitNodes, q \in MemsetInputs \cup {MemsetNoDevice} :
       ops < MaxInitOps /\ CreateNode(a, "Memset", q)
  \/ \E a \in 1..MaxInitNodes, g \in InitChildGraphInputs :
       ops < MaxInitOps /\ CreateNode(a, "Graph", g)
  \/ \E p, c \in Addr :
       ops < MaxInitOps /\ CallAddEdge(p, c, FALSE)
  \/ \E mk \in BOOLEAN \X BOOLEAN :
       ops < MaxInitOps /\ CallInstantiate(mk)
  \/ \E seq \in Perms(clonedGraph), f \in BOOLEAN :
       ops < MaxInitOps /\ CallExecDestroy(seq, f)

SpecInit == Init /\ [][NextInit]_vars

\* Kernel, Memset and ChildGraph nodes are created, their parameters are
\* set again from valid and invalid inputs while allocations may fail, and
\* the graph is instantiated.
MaxParamNodes == 2
MaxParamOps == 4
MaxAllocs == 3

KernelInputs ==
  {KernelNodeParams(1, <<10>>, 1), KernelNodeParams(2, <<20, 21>>, 1)}

KernelSetInputs ==
  KernelInputs \cup {KernelNodeParams(1, <<11>>, 0), KernelNodeParams(NULL, <<>>, 1)}

MemsetSetInputs ==
  MemsetInputs \cup {MemsetNoDevice, MemsetParams(1, 1, 0, 1)}

NextParams ==
  \/ \E a \in 1..MaxParamNodes, q \in MemsetInputs \cup {MemsetNoDevice} :
       ops < MaxParamOps /\ CreateNode(a, "Memset", q)
  \/ \E a \in 1..MaxParamNodes, q \in KernelInputs :
       ops < MaxParamOps /\ CreateNode(a, "Kernel", KernelParams(q))
  \/ \E a \in 1..MaxParamNodes, g \in ChildGraphInputs :
       ops < MaxParamOps /\ CreateNode(a, "Graph", g)
  \/ \E n \in Addr, q \in MemsetSetInputs :
       ops < MaxParamOps /\ CallSetParams(n, q)
  \/ \E n \in Addr, q \in KernelSetInputs, k \in 0..MaxAllocs, f \in BOOLEAN :
       ops < MaxParamOps /\ CallKernelSetParams(n, q, k, f)
  \/ \E n \in Addr, g \in InitChildGraphInputs, f \in BOOLEAN,
         st \in {"hipSuccess", "hipErrorInvalidValue"} :
       ops < MaxParamOps /\ CallChildGraphSetParams(n, g, f, st)
  \/ ops < MaxParamOps /\ CallInstantiate(NoMarkers)

SpecParams == Init /\ [][NextParams]_vars

\* A graph of Host and Memset nodes is built and instantiated, the plan is
\* launched more than once, updated from the edited graph, and destroyed.
MaxReplayNodes == 2
MaxReplayOps == 7
HostInputs == {HostNodeParams(1, 1)}

NextReplay ==
  \/ \E a \in 1..MaxReplayNodes, q \in HostInputs :
       ops < MaxReplayOps /\ CreateNode(a, "Host", q)
  \/ \E a \in 1..MaxReplayNodes, q \in MemsetInputs :
       ops < MaxReplayOps /\ CreateNode(a, "Memset", q)
  \/ \E p, c \in Addr :
       ops < MaxReplayOps /\ CallAddEdge(p, c, FALSE)
  \/ \E n \in Addr, q \in MemsetInputs :
       ops < MaxReplayOps /\ CallSetParams(n, q)
  \/ ops < MaxReplayOps /\ CallInstantiate(NoMarkers)
  \/ ops < MaxReplayOps /\ CallRun(NoMarkers)
  \/ \E ok \in BOOLEAN :
       ops < MaxReplayOps + 1 /\ RunEnqueueWith(ok)
  \/ ops < MaxReplayOps /\ CallUpdate(FALSE, "hipSuccess")
  \/ \E seq \in Perms(clonedGraph) :
       ops < MaxReplayOps /\ CallExecDestroy(seq, FALSE)

SpecReplay == Init /\ [][NextReplay]_vars

\* ---------------------------------------------------------------- threads
\* The registry of a kind of object, and the handles callers may hold.
Registry(kind) ==
  CASE kind = "node" -> nodeSet_
    [] kind = "graph" -> graphSet_
    [] kind = "exec" -> graphExecSet_

MaxThreadNodes == 2
MaxThreadIDs == 2

Handles(kind) ==
  CASE kind = "node" -> 1..MaxThreadNodes
    [] kind = "graph" -> {GraphHandle}
    [] kind = "exec" -> {ExecHandle}

\* The steps of a call, in program order.  A node is a hipGraphHostNode:
\* the base constructor runs before the body of the derived one, the base
\* destructor after it; a ScopedLock is released where its scope ends.
Program(call, kind) ==
  CASE call = "ctor" /\ kind = "node" ->
         <<"id_read", "id_write", "lock", "insert", "unlock", "derived">>
    [] call = "copy" /\ kind = "node" ->
         <<"copy", "lock", "insert", "unlock", "derived">>
    [] call = "dtor" /\ kind = "node" ->
         <<"derived", "detach", "lock", "erase", "unlock">>
    [] call = "ctor" /\ kind = "graph" -> <<"lock", "insert", "unlock">>
    [] call = "dtor" /\ kind = "graph" -> <<"members", "lock", "erase", "unlock">>
    [] call = "ctor" /\ kind = "exec" -> <<"members", "lock", "insert", "unlock">>
    [] call = "dtor" /\ kind = "exec" -> <<"members", "lock", "erase", "unlock">>
    [] call = "isValid" -> <<"lock", "find", "unlock">>

\* The step the thread t is about to take.
StepOf(t) ==
  IF threads[t].call = "none" THEN "none"
  ELSE Program(threads[t].call, threads[t].kind)[threads[t].pc]

\* Some thread is constructing or destroying the object.
Busy(kind, obj) ==
  \E t \in Threads :
    /\ threads[t].call \in {"ctor", "copy", "dtor"}
    /\ threads[t].kind = kind
    /\ threads[t].obj = obj

\* Some thread is copying from the node src.
CopiedFrom(src) ==
  \E t \in Threads : threads[t].call = "copy" /\ threads[t].tmp = src

\* The thread t has taken a step and holds tmp: it goes on to its next
\* step, or returns from the call; the node a clone() returned is kept.
ThreadAdvance(t, tmp) ==
  IF threads[t].pc = Len(Program(threads[t].call, threads[t].kind))
  THEN /\ threads' = [threads EXCEPT ![t] = IdleThread]
       /\ last' = IF threads[t].call = "copy"
                  THEN Op(threads[t].call, threads[t].obj, threads[t].kind, tmp)
                  ELSE last
  ELSE /\ threads' = [threads EXCEPT ![t].pc = @ + 1, ![t].tmp = tmp]
       /\ UNCHANGED last

\* The thread t enters a constructor, a destructor or a validity check.
\* A constructor runs on memory that holds no object, a destructor on an
\* object some constructor has finished; a validity check is made with
\* any handle.
ThreadCall(t, call, kind, obj) ==
  /\ threads[t] = IdleThread
  /\ obj \in Handles(kind)
  /\ call = "ctor" =>
       /\ obj \notin Registry(kind)
       /\ ~Busy(kind, obj)
       /\ kind = "node" => nextID < MaxThreadIDs
  /\ call = "dtor" =>
       /\ obj \in Registry(kind)
       /\ ~Busy(kind, obj)
       /\ kind = "node" => ~CopiedFrom(obj)
  /\ threads' = [threads EXCEPT ![t] =
                  [call |-> call, kind |-> kind, obj |-> obj, pc |-> 1, tmp |-> 0]]
  /\ UNCHANGED <<graphVars, aborted, ops, last, planVars, graphSet_,
                 graphExecSet_, locks, stack>>

\* The thread t enters the copy constructor of a node: clone() of the node
\* src into the memory at obj.
ThreadCopy(t, src, obj) ==
  /\ threads[t] = IdleThread
  /\ obj \in Handles("node") \ nodeSet_
  /\ ~Busy("node", obj)
  /\ src \in nodeSet_
  /\ ~Busy("node", src)
  /\ threads' = [threads EXCEPT ![t] =
                  [call |-> "copy", kind |-> "node", obj |-> obj, pc |-> 1,
                   tmp |-> src]]
  /\ UNCHANGED <<graphVars, aborted, ops, last, planVars, graphSet_,
                 graphExecSet_, locks, stack>>

\* id_(nextID++), first half: the static counter is read.
IdRead(t) ==
  /\ StepOf(t) = "id_read"
  /\ ThreadAdvance(t, nextID)
  /\ UNCHANGED <<graphVars, aborted, ops, planVars, graphSet_, graphExecSet_, locks, stack>>

\* id_(nextID++), second half: the counter is written and the node has its
\* id.  Nothing orders the two halves of one thread against another's.
IdWrite(t) ==
  /\ StepOf(t) = "id_write"
  /\ nextID' = threads[t].tmp + 1
  /\ nodes' = [nodes EXCEPT ![threads[t].obj] = NewNode("Host", threads[t].tmp, <<>>)]
  /\ ThreadAdvance(t, threads[t].tmp)
  /\ UNCHANGED <<nodeSet_, vertices_, brk, aborted, ops, planVars, graphSet_,
                 graphExecSet_, locks, stack>>

\* hipGraphNode(const hipGraphNode&): the fields are copied, id_ included.
CopyFields(t) ==
  /\ StepOf(t) = "copy"
  /\ nodes' = [nodes EXCEPT ![threads[t].obj] =
                [NewNode(nodes[threads[t].tmp].type_, nodes[threads[t].tmp].id_, <<>>)
                   EXCEPT !.level_ = nodes[threads[t].tmp].level_,
                          !.inDegree_ = nodes[threads[t].tmp].inDegree_,
                          !.outDegree_ = nodes[threads[t].tmp].outDegree_]]
  /\ ThreadAdvance(t, threads[t].tmp)
  /\ UNCHANGED <<nodeSet_, vertices_, nextID, brk, aborted, ops, planVars,
                 graphSet_, graphExecSet_, locks, stack>>

\* amd::ScopedLock lock(...): the thread waits until the monitor is free.
Lock(t) ==
  /\ StepOf(t) = "lock"
  /\ locks[threads[t].kind] = NoThread
  /\ locks' = [locks EXCEPT ![threads[t].kind] = t]
  /\ ThreadAdvance(t, threads[t].tmp)
  /\ UNCHANGED <<graphVars, aborted, ops, planVars, graphSet_, graphExecSet_, stack>>

\* The registries after the object is inserted into (add) or erased from
\* the one of its kind.
RegistryInsert(kind, obj, add) ==
  /\ nodeSet_' = IF kind # "node" THEN nodeSet_
                 ELSE IF add THEN nodeSet_ \cup {obj} ELSE nodeSet_ \ {obj}
  /\ graphSet_' = IF kind # "graph" THEN graphSet_
                  ELSE IF add THEN graphSet_ \cup {obj} ELSE graphSet_ \ {obj}
  /\ graphExecSet_' = IF kind # "exec" THEN graphExecSet_
                      ELSE IF add THEN graphExecSet_ \cup {obj}
                      ELSE graphExecSet_ \ {obj}

\* nodeSet_.insert(this), graphSet_.insert(this), graphExecSet_.insert(this)
Insert(t) ==
  /\ StepOf(t) = "insert"
  /\ RegistryInsert(threads[t].kind, threads[t].obj, TRUE)
  /\ ThreadAdvance(t, threads[t].tmp)
  /\ UNCHANGED <<nodes, vertices_, nextID, brk, aborted, ops, planVars, locks, stack>>

\* nodeSet_.erase(this), graphSet_.erase(this), graphExecSet_.erase(this)
Erase(t) ==
  /\ StepOf(t) = "erase"
  /\ RegistryInsert(threads[t].kind, threads[t].obj, FALSE)
  /\ ThreadAdvance(t, threads[t].tmp)
  /\ UNCHANGED <<nodes, vertices_, nextID, brk, aborted, ops, planVars, locks, stack>>

\* The lookup of a validity check: 1 when the handle is in the registry.
Find(t) ==
  /\ StepOf(t) = "find"
  /\ ThreadAdvance(t, IF threads[t].obj \in Registry(threads[t].kind) THEN 1 ELSE 0)
  /\ UNCHANGED <<graphVars, aborted, ops, planVars, graphSet_, graphExecSet_, locks, stack>>

\* The scope of the ScopedLock ends.  It is the last step of a destructor:
\* the memory of the object is given back.
Unlock(t) ==
  /\ StepOf(t) = "unlock"
  /\ locks' = [locks EXCEPT ![threads[t].kind] = NoThread]
  /\ nodes' = IF threads[t].call = "dtor" /\ threads[t].kind = "node"
              THEN [nodes EXCEPT ![threads[t].obj] = FreedNode]
              ELSE nodes
  /\ ThreadAdvance(t, threads[t].tmp)
  /\ UNCHANGED <<nodeSet_, vertices_, nextID, brk, aborted, ops, planVars,
                 graphSet_, graphExecSet_, stack>>

\* The body of hipGraphHostNode's constructor (pNodeParams_ is allocated;
\* the copy constructor copies the parameters of the source) or of its
\* destructor (pNodeParams_ is deleted).
Derived(t) ==
  /\ StepOf(t) = "derived"
  /\ nodes' = [nodes EXCEPT ![threads[t].obj].params =
                CASE threads[t].call = "ctor" -> HostNodeParams(1, 1)
                  [] threads[t].call = "copy" -> nodes[threads[t].tmp].params
                  [] OTHER -> <<>>]
  /\ ThreadAdvance(t, 0)
  /\ UNCHANGED <<nodeSet_, vertices_, nextID, brk, aborted, ops, planVars,
                 graphSet_, graphExecSet_, locks, stack>>

\* ~hipGraphNode, the two loops over edges_ and dependencies_: the nodes
\* here have no edges.
Detach(t) ==
  /\ StepOf(t) = "detach"
  /\ nodes[threads[t].obj].edges_ = <<>>
  /\ nodes[threads[t].obj].dependencies_ = <<>>
  /\ ThreadAdvance(t, threads[t].tmp)
  /\ UNCHANGED <<graphVars, aborted, ops, planVars, graphSet_, graphExecSet_, locks, stack>>

\* What a graph's or a plan's constructor or destructor does before it
\* takes the lock: ~ihipGraph deletes the vertices, hipGraphExec's
\* constructor initialises the members, ~hipGraphExec releases the queues
\* and deletes the clones.  The graphs and plans here hold no nodes.
Members(t) ==
  /\ StepOf(t) = "members"
  /\ ThreadAdvance(t, threads[t].tmp)
  /\ UNCHANGED <<graphVars, aborted, ops, planVars, graphSet_, graphExecSet_, locks, stack>>

\* Several threads construct, copy, destroy and check nodes, graphs and
\* plans.
NextThreads ==
  \/ \E t \in Threads, call \in {"ctor", "dtor", "isValid"},
        kind \in Registries, obj \in 1..MaxThreadNodes :
       ThreadCall(t, call, kind, obj)
  \/ \E t \in Threads, src, obj \in 1..MaxThreadNodes : ThreadCopy(t, src, obj)
  \/ \E t \in Threads : IdRead(t)
  \/ \E t \in Threads : IdWrite(t)
  \/ \E t \in Threads : CopyFields(t)
  \/ \E t \in Threads : Lock(t)
  \/ \E t \in Threads : Insert(t)
  \/ \E t \in Threads : Erase(t)
  \/ \E t \in Threads : Find(t)
  \/ \E t \in Threads : Unlock(t)
  \/ \E t \in Threads : Derived(t)
  \/ \E t \in Threads : Detach(t)
  \/ \E t \in Threads : Members(t)

SpecThreads == Init /\ [][NextThreads]_vars

\* ihipGraph::~ihipGraph with the deletions giving d: the vertices are
\* deleted in vertex order, then the graph leaves the registry.
GraphDestroyed(d, fault) ==
  /\ fault => d.unsafe
  /\ IF fault
     THEN /\ aborted' = TRUE
          /\ last' = Op("Fault", NULL, GraphHandle, FALSE)
          /\ UNCHANGED <<nodes, nodeSet_, vertices_, graphSet_>>
     ELSE /\ nodes' = d.H
          /\ nodeSet_' = nodeSet_ \ Range(vertices_)
          /\ vertices_' = <<>>
          /\ graphSet_' = graphSet_ \ {GraphHandle}
          /\ last' = Op("DestroyGraph", NULL, GraphHandle, TRUE)
          /\ UNCHANGED aborted

\* hipGraphDestroy: delete of the graph.  A node deleted while it has
\* dependencies, or while an edge of it dangles, runs the destructor's
\* undefined walk or writes to freed memory: the process may end instead.
CallDestroyGraph(fault) ==
  /\ Running
  /\ GraphHandle \in graphSet_
  /\ GraphDestroyed(DeleteNodes(nodes, nodeSet_, vertices_, 1, FALSE), fault)
  /\ ops' = ops + 1
  /\ UNCHANGED <<nextID, brk, planVars, graphExecSet_, threadVars, stack>>

\* A graph of Empty nodes is built, cloned once, edited further and
\* destroyed.
MaxDestroyNodes == 4
MaxDestroyOps == 8

NextDestroy ==
  \/ \E a \in 1..MaxDestroyNodes :
       ops < MaxDestroyOps /\ GraphHandle \in graphSet_ /\ CreateNode(a, "Empty", <<>>)
  \/ \E p, c \in Addr :
       ops < MaxDestroyOps /\ GraphHandle \in graphSet_ /\ CallAddEdge(p, c, FALSE)
  \/ ops < MaxDestroyOps /\ GraphHandle \in graphSet_ /\ CallClone
  \/ \E fault \in BOOLEAN :
       ops < MaxDestroyOps /\ CallDestroyGraph(fault)

SpecDestroy == Init /\ [][NextDestroy]_vars

\* A graph of up to three Kernel nodes is built with AddEdge only, and its
\* roots, leaves and run-list are queried.
MaxBranchNodes == 3
MaxBranchOps == 6

NextBranch ==
  \/ \E a \in 1..MaxBranchNodes, q \in KernelInputs :
       ops < MaxBranchOps /\ CreateNode(a, "Kernel", KernelParams(q))
  \/ \E p, c \in Addr :
       ops < MaxBranchOps /\ CallAddEdge(p, c, FALSE)
  \/ ops < MaxBranchOps /\ CallGetRootNodes
  \/ ops < MaxBranchOps /\ CallGetLeafNodes
  \/ ops < MaxBranchOps /\ CallGetRunList

SpecBranch == Init /\ [][NextBranch]_vars

\* The bytes a FillMemory command made from the Memset parameters q writes
\* (offsets into the destination) and the value it writes: one fill of
\* width * elementSize bytes with q.value when height is 1; otherwise
\* hipGraphMemsetNode::CreateCommand hands elementSize over as the value,
\* and the fill covers width * height bytes, row by row unless the pitch is
\* the width.
FillOffsets(q) ==
  IF q.height = 1 THEN 0..(q.width * q.elementSize - 1)
  ELSE IF q.pitch = q.width THEN 0..(q.width * q.height - 1)
  ELSE {r * q.pitch + x : r \in 0..(q.height - 1), x \in 0..(q.width - 1)}

FillValue(q) == IF q.height = 1 THEN q.value ELSE q.elementSize

\* Device memory after the fill made from q has run on mem.
Fill(mem, q) ==
  [b \in DOMAIN mem |-> IF b \in FillOffsets(q) THEN FillValue(q) ELSE mem[b]]

InitialMemory == [b \in 0..(DevSize - 1) |-> 0]

\* Device memory after the completed FillMemory commands among Q[i..] have
\* run on mem in the order of the queue.
RECURSIVE MemoryFrom(_, _, _, _)
MemoryFrom(mem, C, Q, i) ==
  IF i > Len(Q) THEN mem
  ELSE IF C[Q[i]].type = "FillMemory" /\ C[Q[i]].status = "complete"
  THEN MemoryFrom(Fill(mem, C[Q[i]].params), C, Q, i + 1)
  ELSE MemoryFrom(mem, C, Q, i + 1)

\* Three Memset nodes with different parameters are made and chained, the
\* graph is instantiated, and the plan is launched while the device works
\* through the queue.
MaxChainOps == 8
ChainInputs ==
  {MemsetParams(1, 1, 4, 1), MemsetParams(2, 1, 2, 1), MemsetParams(3, 4, 1, 2)}
ChainEdges == {<<1, 2>>, <<2, 3>>}

NextChain ==
  \/ \E a \in 1..3, q \in ChainInputs :
       ops < MaxChainOps /\ CreateNode(a, "Memset", q)
  \/ \E e \in ChainEdges :
       ops < MaxChainOps /\ CallAddEdge(e[1], e[2], FALSE)
  \/ ops < MaxChainOps /\ CallInstantiate(NoMarkers)
  \/ ops < MaxChainOps /\ CallRun(NoMarkers)
  \/ ops < MaxChainOps + 1 /\ RunEnqueue
  \/ \E c \in DOMAIN cmds : ops < MaxChainOps + 1 /\ DeviceStart(c)
  \/ \E c \in DOMAIN cmds : ops < MaxChainOps + 1 /\ DeviceComplete(c)

SpecChain == Init /\ [][NextChain]_vars

\* The pointers the walk of GetRunList follows from the vertices V.
Walked(H, L, V) == UNION {Reach(H, L, n) : n \in Range(V)}

\* GetRunList() of the graph, whatever the edits have left of it.  The walk
\* follows the edge lists: through a pointer to a deleted node it reads
\* freed memory, which still holds an object without edges, or the process
\* ends.
CallGetRunListAny(fault) ==
  /\ ~aborted
  /\ vertices_ # <<>>
  /\ fault => ~(Walked(nodes, nodeSet_, vertices_) \subseteq nodeSet_)
  /\ IF fault
     THEN /\ aborted' = TRUE
          /\ last' = Op("Fault", NULL, NULL, FALSE)
     ELSE /\ last' = Op("GetRunList", NULL, NULL, GetRunList(nodes, vertices_))
          /\ UNCHANGED aborted
  /\ ops' = ops + 1
  /\ UNCHANGED <<graphVars, planVars, regVars, stack>>

\* A graph of Empty nodes is built and edited with AddNode, AddEdge,
\* RemoveEdge and RemoveNode, and its run-list is taken.
MaxRunListNodes == 4
MaxRunListOps == 9

NextRunList ==
  \/ \E a \in 1..MaxRunListNodes :
       ops < MaxRunListOps /\ CreateNode(a, "Empty", <<>>)
  \/ \E p, c \in Addr :
       ops < MaxRunListOps /\ CallAddEdge(p, c, FALSE)
  \/ \E p, c \in Addr :
       ops < MaxRunListOps /\ CallRemoveEdge(p, c)
  \/ \E n \in Addr :
       ops < MaxRunListOps /\ CallRemoveNode(n, FALSE)
  \/ \E fault \in BOOLEAN :
       ops < MaxRunListOps /\ CallGetRunListAny(fault)

SpecRunList == Init /\ [][NextRunList]_vars

\* LevelOrder() of the graph; the result is kept in last.
CallLevelOrder ==
  /\ Running
  /\ vertices_ # <<>>
  /\ last' = Op("LevelOrder", NULL, NULL, LevelOrder(nodes, vertices_))
  /\ ops' = ops + 1
  /\ UNCHANGED <<graphVars, aborted, planVars, regVars, stack>>

\* A graph of Empty and ChildGraph nodes is built and edited with AddEdge and
\* RemoveEdge, and its level order is taken.
MaxLevelOrderNodes == 3
MaxLevelOrderOps == 8

NextLevelOrder ==
  \/ \E a \in 1..MaxLevelOrderNodes :
       ops < MaxLevelOrderOps /\ CreateNode(a, "Empty", <<>>)
  \/ \E a \in 1..MaxLevelOrderNodes, g \in ChildGraphInputs :
       ops < MaxLevelOrderOps /\ CreateNode(a, "Graph", g)
  \/ \E p, c \in Addr :
       ops < MaxLevelOrderOps /\ CallAddEdge(p, c, FALSE)
  \/ \E p, c \in Addr :
       ops < MaxLevelOrderOps /\ CallRemoveEdge(p, c)
  \/ ops < MaxLevelOrderOps /\ CallLevelOrder

SpecLevelOrder == Init /\ [][NextLevelOrder]_vars

\* A graph of Empty nodes is built with AddNode and AddEdge only.
MaxAddNodes == 4
MaxAddOps == 8

NextAdd ==
  \/ \E a \in 1..MaxAddNodes :
       ops < MaxAddOps /\ CreateNode(a, "Empty", <<>>)
  \/ \E p, c \in Addr :
       ops < MaxAddOps /\ CallAddEdge(p, c, FALSE)

SpecAdd == Init /\ [][NextAdd]_vars

\* A node is constructed and added to the graph as CreateNode does it, at
\* whatever point of the run.
CreateNodeAny(a, type, p) ==
  /\ ~aborted
  /\ a \in Addr \ nodeSet_
  /\ a <= brk + 1
  /\ nodes' = [nodes EXCEPT ![a] = NewNode(type, nextID, p)]
  /\ nodeSet_' = nodeSet_ \cup {a}
  /\ vertices_' = Append(vertices_, a)
  /\ nextID' = nextID + 1
  /\ brk' = Max(brk, a)
  /\ ops' = ops + 1
  /\ last' = Op("CreateNode", a, NULL, TRUE)
  /\ UNCHANGED <<aborted, planVars, regVars, stack>>

\* A graph of Empty nodes is built and edited with AddNode, AddEdge,
\* RemoveEdge and RemoveNode; a node may be created after one was deleted.
MaxLevelNodes == 4
MaxLevelOps == 9

NextLevels ==
  \/ \E a \in 1..MaxLevelNodes :
       ops < MaxLevelOps /\ CreateNodeAny(a, "Empty", <<>>)
  \/ \E p, c \in Addr :
       ops < MaxLevelOps /\ CallAddEdge(p, c, FALSE)
  \/ \E p, c \in Addr :
       ops < MaxLevelOps /\ CallRemoveEdge(p, c)
  \/ \E n \in Addr :
       ops < MaxLevelOps /\ CallRemoveNode(n, FALSE)

SpecLevels == Init /\ [][NextLevels]_vars

\* ---------------------------------------------------------------- AddEdge, step by step
\* A frame of the call stack: the function, the node it runs on, the argument
\* of AddEdge, and the position of the range-for over edges_.
Frame(fn, node, child, i) == [fn |-> fn, node |-> node, child |-> child, i |-> i]

\* The stack the process has: a call that needs a frame beyond it ends the
\* process.
MaxStack == 5

\* p->AddEdge(c) on two live nodes, up to the call of
\* childNode->UpdateEdgeLevel(): no check is made of where c lies.
AddEdgeEnter(p, c) ==
  /\ ~aborted
  /\ stack = <<>>
  /\ p \in nodeSet_ /\ c \in nodeSet_
  /\ Count(nodes[p].edges_, c) < MaxDup
  /\ LET H1 == [nodes EXCEPT ![p].edges_ = Append(@, c),
                             ![p].outDegree_ = @ + 1]
         H2 == [H1 EXCEPT ![c].inDegree_ = @ + 1]
     IN nodes' = [H2 EXCEPT ![c].level_ = Max(@, H2[p].level_ + 1)]
  /\ stack' = <<Frame("AddEdge", p, c, 0), Frame("UpdateEdgeLevel", c, NULL, 1)>>
  /\ ops' = ops + 1
  /\ last' = Op("AddEdgeEnter", p, c, FALSE)
  /\ UNCHANGED <<nodeSet_, vertices_, nextID, brk, aborted, planVars, regVars>>

\* The frame on top of the stack.
Top == stack[Len(stack)]

\* The range-for of UpdateEdgeLevel has an edge left to visit.
AtEdge ==
  /\ stack # <<>>
  /\ Top.fn = "UpdateEdgeLevel"
  /\ Top.i <= Len(nodes[Top.node].edges_)

\* UpdateEdgeLevel, one turn of a loop that raises the level of the edge and
\* does not descend into it.
UpdateEdgeLevelStep_Shallow ==
  /\ ~aborted
  /\ AtEdge
  /\ LET e == nodes[Top.node].edges_[Top.i]
     IN /\ nodes' = [nodes EXCEPT ![e].level_ = Max(@, nodes[Top.node].level_ + 1)]
        /\ stack' = [stack EXCEPT ![Len(stack)].i = @ + 1]
  /\ UNCHANGED <<nodeSet_, vertices_, nextID, brk, aborted, ops, last, planVars,
                 regVars>>

\* UpdateEdgeLevel, one turn of the loop: the level of the edge is raised
\* and edge->UpdateEdgeLevel() is called.
UpdateEdgeLevelStep ==
  /\ ~aborted
  /\ AtEdge
  /\ Len(stack) < MaxStack
  /\ LET e == nodes[Top.node].edges_[Top.i]
     IN /\ nodes' = [nodes EXCEPT ![e].level_ = Max(@, nodes[Top.node].level_ + 1)]
        /\ stack' = Append([stack EXCEPT ![Len(stack)].i = @ + 1],
                           Frame("UpdateEdgeLevel", e, NULL, 1))
  /\ UNCHANGED <<nodeSet_, vertices_, nextID, brk, aborted, ops, last, planVars,
                 regVars>>

\* The call of edge->UpdateEdgeLevel() finds no stack left.
StackOverflow ==
  /\ ~aborted
  /\ AtEdge
  /\ Len(stack) >= MaxStack
  /\ aborted' = TRUE
  /\ last' = Op("Fault", stack[1].node, stack[1].child, FALSE)
  /\ UNCHANGED <<graphVars, ops, planVars, regVars, stack>>

\* UpdateEdgeLevel returns at the end of its loop.
UpdateEdgeLevelReturn ==
  /\ ~aborted
  /\ stack # <<>>
  /\ Top.fn = "UpdateEdgeLevel"
  /\ Top.i > Len(nodes[Top.node].edges_)
  /\ stack' = SubSeq(stack, 1, Len(stack) - 1)
  /\ UNCHANGED <<graphVars, aborted, ops, last, planVars, regVars>>

\* AddEdge after childNode->UpdateEdgeLevel() has returned:
\* childNode->AddDependency(this), and the call returns.
AddEdgeReturn ==
  /\ ~aborted
  /\ stack # <<>>
  /\ Top.fn = "AddEdge"
  /\ nodes' = AddDependency(nodes, Top.child, Top.node)
  /\ stack' = <<>>
  /\ last' = Op("AddEdge", Top.node, Top.child, TRUE)
  /\ UNCHANGED <<nodeSet_, vertices_, nextID, brk, aborted, ops, planVars, regVars>>

\* A graph of Empty nodes is built with AddNode and AddEdge between any two
\* nodes; a call that is running runs on.
MaxCycleNodes == 3
MaxCycleOps == 6

NextCycle ==
  \/ \E a \in 1..MaxCycleNodes :
       ops < MaxCycleOps /\ stack = <<>> /\ CreateNodeAny(a, "Empty", <<>>)
  \/ \E p, c \in Addr :
       ops < MaxCycleOps /\ AddEdgeEnter(p, c)
  \/ UpdateEdgeLevelStep
  \/ StackOverflow
  \/ UpdateEdgeLevelReturn
  \/ AddEdgeReturn

SpecCycle ==
  /\ Init
  /\ [][NextCycle]_vars
  /\ WF_vars(UpdateEdgeLevelStep)
  /\ WF_vars(StackOverflow)
  /\ WF_vars(UpdateEdgeLevelReturn)
  /\ WF_vars(AddEdgeReturn)

\* n->clone() of a vertex of the graph: the copy constructor of the node's
\* kind builds the new node, which registers itself in nodeSet_; it is in no
\* graph yet.  The clone of the vertex at index i is allocated at
\* CloneBase + i.
CallNodeClone(n) ==
  /\ Running
  /\ n \in Range(vertices_)
  /\ CloneMap(vertices_)[n] \notin nodeSet_
  /\ nodes' = [nodes EXCEPT ![CloneMap(vertices_)[n]] = CopyNode(nodes[n])]
  /\ nodeSet_' = nodeSet_ \cup {CloneMap(vertices_)[n]}
  /\ last' = Op("NodeClone", n, CloneMap(vertices_)[n], TRUE)
  /\ ops' = ops + 1
  /\ UNCHANGED <<vertices_, nextID, brk, aborted, planVars, regVars, stack>>

\* A graph of Empty and Memset nodes is built with AddNode and AddEdge, and
\* nodes of it are cloned.
MaxNodeCloneNodes == 3
MaxNodeCloneOps == 6

NextNodeClone ==
  \/ \E a \in 1..MaxNodeCloneNodes :
       ops < MaxNodeCloneOps /\ CreateNode(a, "Empty", <<>>)
  \/ \E a \in 1..MaxNodeCloneNodes, q \in MemsetInputs :
       ops < MaxNodeCloneOps /\ CreateNode(a, "Memset", q)
  \/ \E p, c \in Addr :
       ops < MaxNodeCloneOps /\ CallAddEdge(p, c, FALSE)
  \/ \E n \in Addr :
       ops < MaxNodeCloneOps /\ CallNodeClone(n)

SpecNodeClone == Init /\ [][NextNodeClone]_vars

\* What the member read through a pointer cast to the receiver's class may
\* yield when the object is of another class: any parameters of the
\* receiver's kind, valid or not.
MistypedParams(type) ==
  CASE type = "Memset" -> MemsetSetInputs
    [] type = "Host" -> {HostNodeParams(Garbage, Garbage)}
    [] OTHER -> {<<>>}

\* SetParams(hipGraphNode*) of the receiver once the static_cast has given
\* it the parameters q: <<status, receiver>>.
SetParamsWith(node, q) ==
  CASE node.type_ = "Memset" -> MemsetSetParams(node, q)
    [] node.type_ = "Host" -> <<"hipSuccess", [node EXCEPT !.params = q]>>
    [] node.type_ = "Memcpy1D" -> Memcpy1DSetParamsNode(node, q)
    [] node.type_ = "MemcpyFromSymbol" -> MemcpyFromSymbolSetParamsNode(node, q)
    [] node.type_ = "MemcpyToSymbol" -> MemcpyToSymbolSetParamsNode(node, q)
    [] OTHER -> <<"hipSuccess", node>>

\* n->SetParams(m) on two vertices of the graph.  The overrides cast m to
\* the receiver's class without a look at its kind: when the kinds differ
\* the parameters are read from an object of another class, which yields
\* some parameters q, or the process ends.  The base class method, which
\* the Empty kind keeps, reads nothing.
CallSetParamsNode(n, m, q, fault) ==
  /\ Running
  /\ n \in Range(vertices_) /\ m \in Range(vertices_)
  /\ n # m
  /\ IF nodes[n].type_ = nodes[m].type_ \/ nodes[n].type_ = "Empty"
     THEN ~fault /\ q = nodes[m].params
     ELSE q \in MistypedParams(nodes[n].type_)
  /\ IF fault
     THEN /\ aborted' = TRUE
          /\ UNCHANGED nodes
          /\ last' = Op("Fault", n, m, FALSE)
     ELSE /\ nodes' = [nodes EXCEPT ![n] = SetParamsWith(nodes[n], q)[2]]
          /\ last' = Op("SetParamsNode", n, m, SetParamsWith(nodes[n], q)[1])
          /\ UNCHANGED aborted
  /\ ops' = ops + 1
  /\ UNCHANGED <<nodeSet_, vertices_, nextID, brk, planVars, regVars, stack>>

\* A graph of Empty, Memset and Host nodes is built, and nodes are given the
\* parameters of other nodes.
MaxSetNodes == 3
MaxSetOps == 5

SetNodeParams ==
  {nodes[m].params : m \in Range(vertices_)}
    \cup MistypedParams("Memset") \cup MistypedParams("Host")

NextSetNode ==
  \/ \E a \in 1..MaxSetNodes :
       ops < MaxSetOps /\ CreateNode(a, "Empty", <<>>)
  \/ \E a \in 1..MaxSetNodes, q \in MemsetInputs :
       ops < MaxSetOps /\ CreateNode(a, "Memset", q)
  \/ \E a \in 1..MaxSetNodes, q \in HostInputs :
       ops < MaxSetOps /\ CreateNode(a, "Host", q)
  \/ \E n, m \in Addr, f \in BOOLEAN : \E q \in SetNodeParams :
       ops < MaxSetOps /\ CallSetParamsNode(n, m, q, f)

SpecSetNode == Init /\ [][NextSetNode]_vars

\* A graph of copy, Memset and Host nodes is built, and nodes are given the
\* parameters of other nodes of their own kind.
MaxCopyNodes == 3
MaxCopyOps == 4

Memcpy1DInputs ==
  {Memcpy1DParams(DevicePtr, HostPtr, 2, "hipMemcpyHostToDevice"),
   Memcpy1DParams(HostPtr, DevicePtr, 1, "hipMemcpyDeviceToHost")}

MemcpyFromSymbolInputs ==
  {MemcpyFromSymbolParams(HostPtr, SymbolA, 1, 0, "hipMemcpyHostToDevice"),
   MemcpyFromSymbolParams(DevicePtr, SymbolB, 1, 1, "hipMemcpyDeviceToDevice")}

MemcpyToSymbolInputs ==
  {MemcpyToSymbolParams(SymbolA, HostPtr, 1, 0, "hipMemcpyHostToHost"),
   MemcpyToSymbolParams(SymbolA, SymbolB, 1, 1, "hipMemcpyHostToHost"),
   MemcpyToSymbolParams(SymbolB, SymbolB, 2, 0, "hipMemcpyHostToHost")}

NextCopy ==
  \/ \E a \in 1..MaxCopyNodes, q \in Memcpy1DInputs :
       ops < MaxCopyOps /\ CreateNode(a, "Memcpy1D", q)
  \/ \E a \in 1..MaxCopyNodes, q \in MemcpyFromSymbolInputs :
       ops < MaxCopyOps /\ CreateNode(a, "MemcpyFromSymbol", q)
  \/ \E a \in 1..MaxCopyNodes, q \in MemcpyToSymbolInputs :
       ops < MaxCopyOps /\ CreateNode(a, "MemcpyToSymbol", q)
  \/ \E a \in 1..MaxCopyNodes, q \in MemsetInputs :
       ops < MaxCopyOps /\ CreateNode(a, "Memset", q)
  \/ \E a \in 1..MaxCopyNodes, q \in HostInputs :
       ops < MaxCopyOps /\ CreateNode(a, "Host", q)
  \/ \E n, m \in Addr :
       /\ ops < MaxCopyOps
       /\ nodes[n].type_ = nodes[m].type_
       /\ CallSetParamsNode(n, m, nodes[m].params, FALSE)

SpecCopy == Init /\ [][NextCopy]_vars

\* Memset and ChildGraph nodes are created and connected, the graph is
\* instantiated and launched once, with or without root and end commands.
MaxNestedNodes == 3
MaxNestedOps == 6

NextNested ==
  \/ \E a \in 1..MaxNestedNodes, q \in {MemsetParams(1, 1, 2, 1)} :
       ops < MaxNestedOps /\ CreateNode(a, "Memset", q)
  \/ \E a \in 1..MaxNestedNodes, g \in ChildGraphInputs :
       ops < MaxNestedOps /\ CreateNode(a, "Graph", g)
  \/ \E p, c \in Addr :
       ops < MaxNestedOps /\ CallAddEdge(p, c, FALSE)
  \/ \E mk \in BOOLEAN \X BOOLEAN :
       ops < MaxNestedOps /\ CallInstantiate(mk)
  \/ \E mk \in BOOLEAN \X BOOLEAN :
       ops < MaxNestedOps /\ run.launch < 1 /\ CallRun(mk)
  \/ RunEnqueue

SpecNested == Init /\ [][NextNested]_vars

\* The same with the device at work: a graph of Memset and ChildGraph
\* nodes is launched once and its commands start and complete.
MaxUnitNodes == 2
MaxUnitOps == 5

NextUnit ==
  \/ \E a \in 1..MaxUnitNodes, q \in {MemsetParams(1, 1, 2, 1)} :
       ops < MaxUnitOps /\ CreateNode(a, "Memset", q)
  \/ \E a \in 1..MaxUnitNodes, g \in ChildGraphInputs :
       ops < MaxUnitOps /\ CreateNode(a, "Graph", g)
  \/ \E p, c \in Addr :
       ops < MaxUnitOps /\ CallAddEdge(p, c, FALSE)
  \/ \E mk \in BOOLEAN \X BOOLEAN :
       ops < MaxUnitOps /\ CallInstantiate(mk)
  \/ \E mk \in BOOLEAN \X BOOLEAN :
       ops < MaxUnitOps /\ run.launch < 1 /\ CallRun(mk)
  \/ RunEnqueue
  \/ \E c \in DOMAIN cmds : DeviceStart(c)
  \/ \E c \in DOMAIN cmds : DeviceComplete(c)

SpecUnit == Init /\ [][NextUnit]_vars

\* A graph of Host and Memset nodes is launched once; the device works
\* through the queues and the host runs the callbacks.
MaxHostNodes == 2
MaxHostOps == 5

NextHost ==
  \/ \E a \in 1..MaxHostNodes, q \in HostInputs :
       ops < MaxHostOps /\ CreateNode(a, "Host", q)
  \/ \E a \in 1..MaxHostNodes, q \in {MemsetParams(1, 1, 2, 1)} :
       ops < MaxHostOps /\ CreateNode(a, "Memset", q)
  \/ \E p, c \in Addr :
       ops < MaxHostOps /\ CallAddEdge(p, c, FALSE)
  \/ ops < MaxHostOps /\ CallInstantiate(NoMarkers)
  \/ ops < MaxHostOps /\ run.launch < 1 /\ CallRun(NoMarkers)
  \/ \E ok \in BOOLEAN : RunEnqueueWith(ok)
  \/ \E c \in DOMAIN cmds : DeviceStart(c)
  \/ \E c \in DOMAIN cmds : DeviceComplete(c)
  \/ \E c \in DOMAIN cmds : CallbackStart(c)
  \/ \E c \in DOMAIN cmds : CallbackReturn(c)

SpecHost == Init /\ [][NextHost]_vars

\* n->GetNumParallelQueues() on a node of the graph.
CallGetNumParallelQueues(n) ==
  /\ Running
  /\ n \in Range(vertices_)
  /\ last' = Op("GetNumParallelQueues", n, NULL, GetNumParallelQueues(nodes[n]))
  /\ ops' = ops + 1
  /\ UNCHANGED <<graphVars, aborted, planVars, regVars, stack>>

\* Memset and ChildGraph nodes, one of them with a nested graph without
\* nodes, are created side by side; the graph is instantiated and launched.
MaxQueueNodes == 2
MaxQueueOps == 5

QueueChildGraphInputs == ChildGraphInputs \cup {ChildGraphOf(<<>>)}

NextQueues ==
  \/ \E a \in 1..MaxQueueNodes, q \in MemsetInputs :
       ops < MaxQueueOps /\ CreateNode(a, "Memset", q)
  \/ \E a \in 1..MaxQueueNodes, g \in QueueChildGraphInputs :
       ops < MaxQueueOps /\ CreateNode(a, "Graph", g)
  \/ \E n \in Addr :
       ops < MaxQueueOps /\ CallGetNumParallelQueues(n)
  \/ ops < MaxQueueOps /\ CallInstantiate(NoMarkers)
  \/ ops < MaxQueueOps /\ CallRun(NoMarkers)
  \/ RunEnqueue

SpecQueues == Init /\ [][NextQueues]_vars

\* What a call that visits commands_ of the node finds there.  An entry that
\* is NULL or was never set is no command: the call ends the process, or,
\* for a pointer that was never set, takes it for any command there is.
\* [fault, node]
BoundOutcomes(node, C) ==
  IF \A i \in DOMAIN node.commands_ : node.commands_[i] \in DOMAIN C
  THEN {[fault |-> FALSE, node |-> node]}
  ELSE {[fault |-> TRUE, node |-> node]} \cup
       (IF Contains(node.commands_, NULL) THEN {}
        ELSE {[fault |-> FALSE,
               node |-> [node EXCEPT !.commands_ =
                           [i \in DOMAIN @ |-> IF @[i] = Garbage THEN c ELSE @[i]]]] :
              c \in DOMAIN C})

\* node->CreateCommand(queue), called on a node of the graph.
CallCreateCommand(n, queue) ==
  /\ Running
  /\ n \in Range(vertices_)
  /\ nodes[n].type_ # "Graph"
  /\ LET r == CreateCommand(n, nodes[n], cmds, queue, 0, run.launch, <<FALSE, FALSE>>)
     IN /\ nodes' = [nodes EXCEPT ![n] = r.node]
        /\ cmds' = r.cmds
        /\ last' = Op("CreateCommand", n, queue, r.status)
        /\ aborted' = (r.status = "Fault")
  /\ ops' = ops + 1
  /\ UNCHANGED <<nodeSet_, vertices_, nextID, brk, cloneVars, exec, run, queues,
                 regVars, stack>>

\* node->EnqueueCommands(stream), called on a node of the graph.
CallEnqueueCommands(n, ok) ==
  /\ Running
  /\ n \in Range(vertices_)
  /\ nodes[n].type_ # "Graph"
  /\ ~ok => (nodes[n].type_ = "Host" /\ nodes[n].commands_ # <<>>)
  /\ \E b \in BoundOutcomes(nodes[n], cmds) :
       /\ aborted' = b.fault
       /\ cmds' = IF b.fault THEN cmds
                  ELSE EnqueueCommands(b.node, cmds, queues, ok).cmds
       /\ queues' = IF b.fault THEN queues
                    ELSE EnqueueCommands(b.node, cmds, queues, ok).queues
       /\ last' = IF b.fault THEN Op("Fault", n, NULL, FALSE)
                  ELSE Op("EnqueueCommands", n, NULL, TRUE)
  /\ ops' = ops + 1
  /\ UNCHANGED <<graphVars, cloneVars, exec, run, regVars, stack>>

\* node->ReleaseCommand(), called on a node of the graph.
CallReleaseCommand(n) ==
  /\ Running
  /\ n \in Range(vertices_)
  /\ nodes[n].type_ # "Graph"
  /\ \E b \in BoundOutcomes(nodes[n], cmds) :
       /\ aborted' = b.fault
       /\ nodes' = IF b.fault THEN nodes
                   ELSE [nodes EXCEPT ![n] = ReleaseCommand(b.node, cmds)[1]]
       /\ cmds' = IF b.fault THEN cmds ELSE ReleaseCommand(b.node, cmds)[2]
       /\ last' = IF b.fault THEN Op("Fault", n, NULL, FALSE)
                  ELSE Op("ReleaseCommand", n, NULL, TRUE)
  /\ ops' = ops + 1
  /\ UNCHANGED <<nodeSet_, vertices_, nextID, brk, cloneVars, exec, run, queues,
                 regVars, stack>>

\* A copy between two host buffers: ihipMemcpy_validate accepts it.
Memcpy1DHostToHost == Memcpy1DParams(HostPtr, HostPtr, 1, "hipMemcpyHostToHost")

\* Memset, Memcpy1D, Host and Empty nodes are created, and their commands
\* are created, enqueued and released, in any order.
MaxCommandNodes == 2
MaxCommandOps == 5

NextCommand ==
  \/ \E a \in 1..MaxCommandNodes, q \in MemsetInputs \cup {MemsetNoDevice} :
       ops < MaxCommandOps /\ CreateNode(a, "Memset", q)
  \/ \E a \in 1..MaxCommandNodes, q \in Memcpy1DInputs \cup {Memcpy1DHostToHost} :
       ops < MaxCommandOps /\ CreateNode(a, "Memcpy1D", q)
  \/ \E a \in 1..MaxCommandNodes, q \in HostInputs :
       ops < MaxCommandOps /\ CreateNode(a, "Host", q)
  \/ \E a \in 1..MaxCommandNodes :
       ops < MaxCommandOps /\ CreateNode(a, "Empty", <<>>)
  \/ \E n \in Addr, queue \in 1..2 :
       ops < MaxCommandOps /\ CallCreateCommand(n, queue)
  \/ \E n \in Addr, ok \in BOOLEAN :
       ops < MaxCommandOps /\ CallEnqueueCommands(n, ok)
  \/ \E n \in Addr :
       ops < MaxCommandOps /\ CallReleaseCommand(n)

SpecCommand == Init /\ [][NextCommand]_vars

\* hipGraphMemsetNodeSetParams on a Memset node of the graph, with the
\* parameters q: node->SetParams(q).
CallMemsetNodeSetParams(n, q) ==
  /\ Running
  /\ n \in Range(vertices_)
  /\ nodes[n].type_ = "Memset"
  /\ nodes' = [nodes EXCEPT ![n] = MemsetSetParams(nodes[n], q)[2]]
  /\ last' = Op("MemsetNodeSetParams", n, q, MemsetSetParams(nodes[n], q)[1])
  /\ ops' = ops + 1
  /\ UNCHANGED <<nodeSet_, vertices_, nextID, brk, aborted, planVars, regVars, stack>>

\* A pitch whose product with a height of 2 is past the range of size_t.
HugePitch == SizeT \div 2

\* hipMemsetParams for the device allocation: element sizes, widths and
\* heights in and out of range, rows at the pitch of the allocation or at
\* HugePitch.
MemsetBoundsInputs ==
  {MemsetParams(1, e, w, h) : e \in {1, 3, 4}, w \in 0..2, h \in 0..2} \cup
  {[MemsetParams(1, e, w, 2) EXCEPT !.pitch = HugePitch] : e \in {1, 4}, w \in 1..2}

\* A Memset node is created, its parameters are set again, and its command
\* is created.
MaxBoundsNodes == 1
MaxBoundsOps == 3

NextBounds ==
  \/ \E a \in 1..MaxBoundsNodes, q \in MemsetBoundsInputs :
       ops < MaxBoundsOps /\ CreateNode(a, "Memset", q)
  \/ \E n \in Addr, q \in MemsetBoundsInputs :
       ops < MaxBoundsOps /\ CallMemsetNodeSetParams(n, q)
  \/ \E n \in Addr, queue \in 1..2 :
       ops < MaxBoundsOps /\ CallCreateCommand(n, queue)

SpecBounds == Init /\ [][NextBounds]_vars

TypeOK ==
  /\ nodeSet_ \subseteq Heap
  /\ Range(vertices_) = nodeSet_ \cap Addr
  /\ Range(clonedGraph) = nodeSet_ \ Addr
  /\ \A a \in Heap \ nodeSet_ : nodes[a] = FreedNode

\* ---------------------------------------------------------------- claims
\* p precedes c in one chain of the run-list R.
EarlierInChain(R, p, c) ==
  \E k \in DOMAIN R.parallelLists :
    \E i, j \in DOMAIN R.parallelLists[k] :
      i < j /\ R.parallelLists[k][i] = p /\ R.parallelLists[k][j] = c

\* c is ordered after p by the run-list R: same chain, or an explicit wait.
OrderedAfter(R, p, c) == EarlierInChain(R, p, c) \/ Contains(R.waitLists[c], p)

RECURSIVE OrderedFrom(_, _, _, _)
OrderedFrom(R, V, frontier, seen) ==
  IF frontier = {} THEN seen
  ELSE LET nxt == {c \in V : \E p \in frontier : OrderedAfter(R, p, c)}
       IN OrderedFrom(R, V, nxt \ (seen \cup frontier), seen \cup frontier)

\* C2: in the output of GetRunList on an acyclic graph, every dependency edge
\* p -> c has p earlier in c's chain or in waitLists[c], and every descendant
\* b of a node a is ordered after a through a sequence of such steps.
C2_RunListOrdersDependencies ==
  last.op = "GetRunList" =>
    LET R == last.ret
        V == Range(vertices_)
    IN /\ \A p, c \in V :
            Contains(nodes[p].edges_, c) => OrderedAfter(R, p, c)
       /\ \A a \in V :
            Reach(nodes, nodeSet_, a) \subseteq OrderedFrom(R, V, {a}, {})

C2_Witness ==
  /\ last.op = "GetRunList"
  /\ Len(last.ret.parallelLists) >= 2
  /\ \E k \in DOMAIN last.ret.parallelLists : Len(last.ret.parallelLists[k]) >= 2
  /\ \E n \in Range(vertices_) : Len(last.ret.waitLists[n]) >= 2

\* The edge pairs of a graph by vertex index.
EdgePairs(H, V) ==
  {<<i, j>> \in (DOMAIN V) \X (DOMAIN V) : Contains(H[V[i]].edges_, V[j])}

\* The operations that edit the original graph.
OriginalEdits ==
  {"CreateNode", "AddEdge", "RemoveEdge", "RemoveAddEdge", "RemoveNode", "SetParams"}

\* C8: right after Clone() the clone has the node count of the original, the
\* same kind and parameters at every vertex index and the same edge pairs by
\* index, and the map takes every original vertex to the clone at its index;
\* every later edit of the original leaves the clone's nodes and vertex list
\* as they are.
C8_CloneIsIsomorphicAndIndependent ==
  [][/\ last'.op = "Clone" =>
          /\ Len(clonedGraph') = Len(vertices_')
          /\ \A i \in DOMAIN vertices_' :
               /\ clonedNodes_'[vertices_'[i]] = clonedGraph'[i]
               /\ nodes'[clonedGraph'[i]].type_ = nodes'[vertices_'[i]].type_
               /\ nodes'[clonedGraph'[i]].params = nodes'[vertices_'[i]].params
          /\ EdgePairs(nodes', clonedGraph') = EdgePairs(nodes', vertices_')
     /\ (clonedGraph # <<>> /\ last'.op \in OriginalEdits) =>
          /\ clonedGraph' = clonedGraph
          /\ \A n \in Range(clonedGraph) : nodes'[n] = nodes[n]
    ]_vars

C8_Witness ==
  /\ clonedGraph # <<>>
  /\ last.op \in {"RemoveNode", "SetParams"}
  /\ Len(clonedGraph) = 2
  /\ EdgePairs(nodes, clonedGraph) # {}
  /\ EdgePairs(nodes, vertices_) = {}
  /\ \E i \in DOMAIN clonedGraph : nodes[clonedGraph[i]].type_ = "Memset"

\* The commands created for launch L for the plan's node n.
CommandsIn(C, n, L) ==
  {c \in DOMAIN C : C[c].owner = NULL /\ C[c].node = n /\ C[c].launch = L}

CommandsOf(n, L) == CommandsIn(cmds, n, L)

\* ca was submitted to cb's queue before cb.
SubmittedBefore(ca, cb) ==
  /\ cmds[ca].queue = cmds[cb].queue
  /\ IndexOf(queues[cmds[cb].queue], ca) >= 1
  /\ IndexOf(queues[cmds[cb].queue], ca) < IndexOf(queues[cmds[cb].queue], cb)

C3_DegreesEqualListLengths ==
  \A n \in nodeSet_ :
    /\ nodes[n].inDegree_ = Len(nodes[n].dependencies_)
    /\ nodes[n].outDegree_ = Len(nodes[n].edges_)

\* C4: after p.AddEdge(c), c's level is at least p's level + 1, c is in p's
\* edge list and p in c's dependency list, and p's outDegree and c's inDegree
\* equal the lengths of those lists.
C4_AddEdgePostconditions ==
  last.op = "AddEdge" =>
    /\ nodes[last.c].level_ >= nodes[last.p].level_ + 1
    /\ Contains(nodes[last.p].edges_, last.c)
    /\ Contains(nodes[last.c].dependencies_, last.p)
    /\ nodes[last.p].outDegree_ = Len(nodes[last.p].edges_)
    /\ nodes[last.c].inDegree_ = Len(nodes[last.c].dependencies_)

\* C5: after a node is destroyed, no live node's edge list or dependency
\* list holds a pointer to it.
C5_NoDanglingAfterDestroy ==
  last.op = "RemoveNode" => last.p \notin Referenced(nodes, nodeSet_)

\* C6: GetRootNodes returns exactly the vertices with no dependencies and
\* GetLeafNodes exactly the vertices with no edges, in vertex order.
C6_RootsAndLeavesExact ==
  /\ last.op = "GetRootNodes" =>
       last.ret = SelectSeq(vertices_, LAMBDA n : nodes[n].dependencies_ = <<>>)
  /\ last.op = "GetLeafNodes" =>
       last.ret = SelectSeq(vertices_, LAMBDA n : nodes[n].edges_ = <<>>)

\* C7 as stated: p.RemoveEdge(c) followed by p.AddEdge(c) restores the level
\* of every node, the degrees of p and c, and the membership of c in p's edge
\* list and of p in c's dependency list.
C7_RemoveAddRestoresAll ==
  [][last'.op = "RemoveAddEdge" =>
       /\ \A n \in Heap : nodes'[n].level_ = nodes[n].level_
       /\ nodes'[last'.p].outDegree_ = nodes[last'.p].outDegree_
       /\ nodes'[last'.c].inDegree_ = nodes[last'.c].inDegree_
       /\ Contains(nodes'[last'.p].edges_, last'.c)
       /\ Contains(nodes'[last'.c].dependencies_, last'.p)
    ]_vars

\* C7 amended: the pair restores every node's degrees and the sets of nodes
\* in every edge and dependency list, leaves the level of every node other
\* than c as it was, and sets c's level to the greatest level of a node in
\* its dependency list (p included) plus one, which is never above the level
\* c had.
C7_RemoveAddRestoresDegreesAndMembership ==
  [][last'.op = "RemoveAddEdge" =>
       /\ \A n \in Heap \ {last'.c} : nodes'[n].level_ = nodes[n].level_
       /\ nodes'[last'.c].level_ =
            LevelOver(nodes, nodes[last'.c].dependencies_, 1)
       /\ nodes'[last'.c].level_ <= nodes[last'.c].level_
       /\ \A n \in Heap :
            /\ nodes'[n].inDegree_ = nodes[n].inDegree_
            /\ nodes'[n].outDegree_ = nodes[n].outDegree_
            /\ Range(nodes'[n].edges_) = Range(nodes[n].edges_)
            /\ Range(nodes'[n].dependencies_) = Range(nodes[n].dependencies_)
    ]_vars

C7_Witness ==
  /\ last.op = "RemoveAddEdge"
  /\ last.ret > nodes[last.c].level_
  /\ nodes[last.c].level_ = nodes[last.p].level_ + 1

\* The parameters a node stores, those of the nodes of a nested graph
\* included.
RECURSIVE StoredParams(_)
StoredParams(node) ==
  IF node.type_ = "Graph"
  THEN LET g == node.params.childGraph_
       IN [i \in DOMAIN g.vertices_ |-> StoredParams(g.nodes[g.vertices_[i]])]
  ELSE node.params

\* The commands created for launch L within the plan's ChildGraph node n.
NestedCommandsIn(C, n, L) ==
  {c \in DOMAIN C : C[c].owner = n /\ C[c].launch = L}

\* C9: instantiation gives the plan clones that store the parameters of the
\* captured nodes; every later edit of the original graph leaves the plan's
\* chains, level order, wait map and cloned nodes as they are; no step other
\* than Update changes a parameter a cloned node stores; and the commands a
\* Run creates carry the parameters the cloned nodes store.
C9_PlanExecutesClone ==
  [][/\ (last'.op = "Instantiate" /\ last'.ret = "hipSuccess") =>
          /\ exec'.parallelLists_ =
               GetRunList(nodes', clonedGraph').parallelLists
          /\ \A i \in DOMAIN vertices_ :
               StoredParams(nodes'[clonedGraph'[i]]) =
                 StoredParams(nodes[vertices_[i]])
     /\ (exec.state = "Instantiated" /\ last'.op \in OriginalEdits) =>
          /\ exec' = exec
          /\ clonedGraph' = clonedGraph
          /\ \A n \in Range(clonedGraph) : nodes'[n] = nodes[n]
     /\ (exec.state = "Instantiated" /\ last'.op # "Update") =>
          \A n \in Range(clonedGraph) :
            StoredParams(nodes'[n]) = StoredParams(nodes[n])
     /\ (last'.op = "Run" /\ last'.ret = "hipSuccess") =>
          \A n \in Range(clonedGraph) :
            /\ nodes[n].type_ # "Graph" =>
                 /\ CommandsIn(cmds', n, run'.launch) # {}
                 /\ \A c \in CommandsIn(cmds', n, run'.launch) :
                      cmds'[c].params = nodes[n].params
            /\ nodes[n].type_ = "Graph" =>
                 /\ NestedCommandsIn(cmds', n, run'.launch) # {}
                 /\ \A c \in NestedCommandsIn(cmds', n, run'.launch) :
                      cmds'[c].params =
                        nodes[n].params.childGraph_.nodes[cmds'[c].node].params
    ]_vars

C9_Witness ==
  /\ last.op = "Run"
  /\ last.ret = "hipSuccess"
  /\ EdgePairs(nodes, vertices_) # EdgePairs(nodes, clonedGraph)
  /\ \E i \in DOMAIN clonedGraph :
       /\ i \in DOMAIN vertices_
       /\ nodes[clonedGraph[i]].type_ = "Memset"
       /\ nodes[vertices_[i]].type_ = "Memset"
       /\ nodes[clonedGraph[i]].params # nodes[vertices_[i]].params
       /\ \E c \in CommandsOf(clonedGraph[i], run.launch) :
            cmds[c].params = nodes[clonedGraph[i]].params

\* The node counts of the plan's graph and of the graph given to Update
\* differ, at top level or in the nested graphs of two ChildGraph nodes the
\* update pairs.
NodeCountDiffers(H, old, new) ==
  \/ Len(old) # Len(new)
  \/ /\ \A i \in DOMAIN old : H[old[i]].type_ = H[new[i]].type_
     /\ \E i \in DOMAIN old :
          /\ H[old[i]].type_ = "Graph"
          /\ Len(H[old[i]].params.childGraph_.vertices_) #
               Len(H[new[i]].params.childGraph_.vertices_)

\* C10: an Update from a graph whose node count differs from the plan's, at
\* top level or inside a ChildGraph node's nested graph, returns an error and
\* changes no parameter stored by a cloned node.
C10_UpdateCountMismatchFails ==
  [][(last'.op \in {"Update", "Fault"} /\ exec.state = "Instantiated"
        /\ run.pc = "idle" /\ last'.p = NULL
        /\ NodeCountDiffers(nodes, exec.levelOrder_, LevelOrder(nodes, vertices_))) =>
       /\ last'.op = "Update"
       /\ last'.ret # "hipSuccess"
       /\ \A n \in Range(clonedGraph) :
            StoredParams(nodes'[n]) = StoredParams(nodes[n])
    ]_vars

C10_Witness ==
  /\ last.op = "Update"
  /\ last.ret = "hipSuccess"
  /\ \E i \in DOMAIN exec.levelOrder_ :
       /\ i \in DOMAIN LevelOrder(nodes, vertices_)
       /\ nodes[exec.levelOrder_[i]].type_ = "Graph"
       /\ nodes[LevelOrder(nodes, vertices_)[i]].type_ = "Graph"
       /\ Len(nodes[exec.levelOrder_[i]].params.childGraph_.vertices_) = 2
       /\ Len(nodes[LevelOrder(nodes, vertices_)[i]].params.childGraph_.vertices_) = 1

\* The commands bound to a node, those bound to the nodes of a nested graph
\* included.
RECURSIVE BoundCommands(_)
BoundCommands(node) ==
  Range(node.commands_) \cup
    (IF node.type_ = "Graph"
     THEN LET g == node.params.childGraph_
          IN UNION {BoundCommands(g.nodes[v]) : v \in Range(g.vertices_)}
     ELSE {})

\* C11: when CreateCommand of a node fails while Init walks the level order,
\* Init returns that error, there is no usable plan, every command created
\* on the way has been released exactly once, and no node of the plan's
\* graph, nested nodes included, holds a command.
C11_InstantiationIsAtomic ==
  (last.op = "Instantiate" /\ last.ret \notin {"hipSuccess", "Fault"}) =>
    /\ exec.state # "Instantiated"
    /\ \A c \in DOMAIN cmds : cmds[c].released = 1
    /\ \A n \in Range(clonedGraph) : BoundCommands(nodes[n]) = {}

C11_Witness ==
  /\ last.op = "Instantiate"
  /\ last.ret = "hipErrorInvalidValue"
  /\ exec.state = "Failed"
  /\ \E n \in Range(clonedGraph) :
       /\ nodes[n].type_ = "Graph"
       /\ nodes[n].commands_ = <<>>
       /\ \E c \in BoundCommands(nodes[n]) :
            c \in DOMAIN cmds /\ cmds[c].released = 0
  /\ \E c \in DOMAIN cmds : cmds[c].released = 1
  /\ \E n \in Range(clonedGraph) : nodes[n].commands_ = <<Garbage>>

\* C12: when SetParams of a node returns an error, the parameters the node
\* stores (a Kernel node's function and argument buffers, a ChildGraph
\* node's nested parameters) are those it stored before the call; when
\* CreateCommand of a node fails during instantiation, every node of the
\* graph and every clone stores the parameters the node stored before.
C12_FailedCallKeepsParams ==
  [][/\ (last'.op = "SetParams" /\ last'.ret # "hipSuccess") =>
          StoredParams(nodes'[last'.p]) = StoredParams(nodes[last'.p])
     /\ (last'.op = "Instantiate" /\ last'.ret \notin {"hipSuccess", "Fault"}) =>
          \A i \in DOMAIN vertices_ :
            /\ StoredParams(nodes'[vertices_[i]]) = StoredParams(nodes[vertices_[i]])
            /\ StoredParams(nodes'[clonedGraph'[i]]) =
                 StoredParams(nodes[vertices_[i]])
    ]_vars

C12_Witness ==
  /\ last.op = "SetParams"
  /\ last.ret = "hipErrorOutOfMemory"
  /\ nodes[last.p].type_ = "Kernel"
  /\ nodes[last.p].params.func_ # nodes[last.p].params.func

\* hipGraphExec::isGraphExecValid: the handle is looked up in graphExecSet_.
isGraphExecValid(pGraphExec) == pGraphExec \in graphExecSet_

\* The number of times the command c was submitted to a queue.
RECURSIVE TimesQueuedFrom(_, _)
TimesQueuedFrom(c, q) ==
  IF q > MaxNodes THEN 0 ELSE Count(queues[q], c) + TimesQueuedFrom(c, q + 1)

TimesQueued(c) == TimesQueuedFrom(c, 0)

\* The commands bound to the plan's node n.
BoundTo(n) == {c \in DOMAIN cmds : cmds[c].node = n /\ cmds[c].owner = NULL}

RECURSIVE SumQueued(_)
SumQueued(S) ==
  IF S = {} THEN 0
  ELSE LET c == CHOOSE x \in S : TRUE
       IN TimesQueued(c) + SumQueued(S \ {c})

\* Every launch so far has submitted one command of the node n, a different
\* one each time.
EnqueuedOncePerRun(n) ==
  /\ SumQueued(BoundTo(n)) = run.launch
  /\ \A c \in BoundTo(n) : TimesQueued(c) <= 1

\* C13: the plan is launched and updated only between a successful
\* instantiation and its destruction, every Run that has returned has
\* enqueued the operation of each node of the plan exactly once, a
\* destroyed plan stays destroyed, and it is never reported valid again.
C13_PlanStateMachine ==
  /\ [][/\ (run'.launch # run.launch \/ (last'.op = "Update" /\ ops' # ops))
            => (exec.state = "Instantiated" /\ exec'.state = "Instantiated")
        /\ exec.state = "Destroyed" => exec'.state = "Destroyed"]_vars
  /\ [](exec.state = "Destroyed" => ~isGraphExecValid(ExecHandle))
  /\ []((exec.state = "Instantiated" /\ run.pc = "idle") =>
          \A n \in Range(exec.levelOrder_) : EnqueuedOncePerRun(n))

\* The second Run of a plan with a Host node has returned: the marker made
\* for the node at instantiation was submitted twice, and the markers made
\* for the node by the two launches were never submitted.
C13_Witness ==
  /\ exec.state = "Instantiated"
  /\ run.pc = "idle"
  /\ run.launch = 2
  /\ \E n \in Range(exec.levelOrder_) :
       /\ nodes[n].type_ = "Host"
       /\ Len(nodes[n].commands_) = 3
       /\ TimesQueued(nodes[n].commands_[1]) = 2
       /\ cmds[nodes[n].commands_[1]].launch = 0
       /\ \A i \in 2..3 : TimesQueued(nodes[n].commands_[i]) = 0

\* C14: a Run during which the enqueue of a node failed does not return
\* success to its caller.
C14_EnqueueFailureReturned ==
  (run.pc = "idle" /\ run.failed) => run.ret # "hipSuccess"

\* A Run has returned during which a Host node's setCallback failed.
C14_Witness ==
  /\ run.pc = "idle"
  /\ run.launch >= 1
  /\ run.failed
  /\ run.ret = "hipSuccess"
  /\ \E n \in Range(exec.levelOrder_) :
       nodes[n].type_ = "Host" /\ TimesQueued(nodes[n].commands_[1]) >= 1

\* The object is in the registry of its kind and no constructor or
\* destructor is at work on it.
ObjectLive(kind, obj) == obj \in Registry(kind) /\ ~Busy(kind, obj)

\* C15: whatever the interleaving of the threads, a registry changes and
\* is looked up only in a step of the thread that holds its lock, and a
\* validity check finds a handle only if the object's construction has
\* completed and its destruction has not started.
C15_RegistriesAreSafe ==
  /\ [][\A k \in Registries :
          Registry(k)' # Registry(k) =>
            /\ locks[k] # NoThread
            /\ locks'[k] = locks[k]
            /\ threads'[locks[k]] # threads[locks[k]]]_vars
  /\ [](\A t \in Threads :
          StepOf(t) \in {"insert", "erase", "find"} => locks[threads[t].kind] = t)
  /\ [][\A t \in Threads :
          (StepOf(t) = "find" /\ threads'[t] # threads[t] /\ threads'[t].tmp = 1)
            => ObjectLive(threads[t].kind, threads[t].obj)]_vars

\* A validity check has found a node whose destructor is at work, and
\* whose derived part is gone already.
C15_Witness ==
  \E t, u \in Threads :
    /\ threads[t].call = "isValid"
    /\ threads[t].kind = "node"
    /\ threads[t].tmp = 1
    /\ StepOf(t) = "unlock"
    /\ threads[u].call = "dtor"
    /\ threads[u].kind = "node"
    /\ threads[u].obj = threads[t].obj
    /\ StepOf(u) = "lock"
    /\ nodes[threads[u].obj].params = <<>>

\* C16: no two live nodes share an id, and a node that is constructed or
\* copied gets an id greater than the id of every node there is.
C16_IdsUniqueAndIncreasing ==
  /\ [](\A a, b \in nodeSet_ : a # b => nodes[a].id_ # nodes[b].id_)
  /\ [][\A a \in Heap :
          (nodes[a].type_ = "None" /\ nodes'[a].type_ # "None") =>
            \A b \in Heap \ {a} :
              nodes[b].type_ # "None" => nodes'[a].id_ > nodes[b].id_]_vars

\* Two live nodes share an id: one thread has returned from clone() of the
\* other node.
C16_Witness ==
  /\ last.op = "copy"
  /\ \A t \in Threads : threads[t] = IdleThread
  /\ \E a \in nodeSet_ :
       /\ a # last.p
       /\ last.p \in nodeSet_
       /\ nodes[a].id_ = nodes[last.p].id_

\* ihipGraph::isGraphValid: the handle is looked up in graphSet_.
isGraphValid(pGraph) == pGraph \in graphSet_

\* C17: the destruction of the graph goes through, afterwards none of its
\* vertices is in the node registry and the graph is not in the graph
\* registry, and the clone made of it earlier is as it was: registered,
\* with the same vertex list, and every node of it unchanged.
C17_DestroyGraphDestroysItsNodes ==
  [][(last'.op \in {"DestroyGraph", "Fault"} /\ ops' # ops
        /\ last'.c = GraphHandle) =>
       /\ last'.op = "DestroyGraph"
       /\ \A n \in Range(vertices_) : n \notin nodeSet_' /\ nodes'[n] = FreedNode
       /\ GraphHandle \notin graphSet_'
       /\ (CloneHandle \in graphSet_) = (CloneHandle \in graphSet_')
       /\ clonedGraph' = clonedGraph
       /\ \A n \in Range(clonedGraph) : n \in nodeSet_' /\ nodes'[n] = nodes[n]
    ]_vars

\* A graph that was cloned has been destroyed: its nodes are gone and the
\* clone still has its nodes and its edge.
C17_Witness ==
  /\ last.op = "DestroyGraph"
  /\ ~isGraphValid(GraphHandle)
  /\ isGraphValid(CloneHandle)
  /\ Len(clonedGraph) >= 2
  /\ nodeSet_ = Range(clonedGraph)
  /\ EdgePairs(nodes, clonedGraph) # {}

\* The graph of three Kernel nodes K1, K2, K3 (created in that order) with
\* the edges K1 -> K2 and K1 -> K3, added in that order and once each.
BranchGraph(K1, K2, K3) ==
  /\ vertices_ = <<K1, K2, K3>>
  /\ \A n \in {K1, K2, K3} : nodes[n].type_ = "Kernel"
  /\ nodes[K1].edges_ = <<K2, K3>>
  /\ nodes[K2].edges_ = <<>>
  /\ nodes[K3].edges_ = <<>>

\* The position of the chain of lists that holds n.
ChainIndex(lists, n) == CHOOSE k \in DOMAIN lists : Contains(lists[k], n)

\* C18: for the graph K1 -> K2, K1 -> K3 the only root is K1, the leaves
\* are K2 and K3, K1 is at level 0 and K2 and K3 at level 1, the run-list
\* has exactly two chains that hold every node once, and K2 or K3, when it
\* is not in K1's chain, waits for K1; the queries return just that.
C18_BranchScenario ==
  \A K1, K2, K3 \in Addr :
    BranchGraph(K1, K2, K3) =>
      /\ GetRootNodes(nodes, vertices_) = <<K1>>
      /\ GetLeafNodes(nodes, vertices_) = <<K2, K3>>
      /\ nodes[K1].level_ = 0
      /\ nodes[K2].level_ = 1
      /\ nodes[K3].level_ = 1
      /\ LET R == GetRunList(nodes, vertices_)
         IN /\ Len(R.parallelLists) = 2
            /\ \A n \in {K1, K2, K3} :
                 Cardinality({k \in DOMAIN R.parallelLists :
                                Contains(R.parallelLists[k], n)}) = 1
            /\ \A n \in {K2, K3} :
                 ChainIndex(R.parallelLists, n) # ChainIndex(R.parallelLists, K1)
                   => Contains(R.waitLists[n], K1)
            /\ \E n \in {K2, K3} :
                 ChainIndex(R.parallelLists, n) # ChainIndex(R.parallelLists, K1)
            /\ last.op = "GetRunList" => last.ret = R
      /\ last.op = "GetRootNodes" => last.ret = <<K1>>
      /\ last.op = "GetLeafNodes" => last.ret = <<K2, K3>>

\* GetRunList was called on the graph K1 -> K2, K1 -> K3: K2 follows K1 in
\* the first chain, K3 is a chain of its own and waits for K1.
C18_Witness ==
  /\ BranchGraph(1, 2, 3)
  /\ last.op = "GetRunList"
  /\ last.ret.parallelLists = <<(<<1, 2>>), (<<3>>)>>
  /\ last.ret.waitLists[3] = <<1>>
  /\ last.ret.waitLists[2] = <<>>

\* The plan of the graph M1 -> M2 -> M3 of three Memset nodes: m1, m2, m3
\* are the clones, in one chain.
ChainPlan(m1, m2, m3) ==
  /\ exec.state = "Instantiated"
  /\ exec.levelOrder_ = <<m1, m2, m3>>
  /\ exec.parallelLists_ = <<(<<m1, m2, m3>>)>>
  /\ \A n \in {m1, m2, m3} : nodes[n].type_ = "Memset"
  /\ nodes[m1].edges_ = <<m2>>
  /\ nodes[m2].edges_ = <<m3>>
  /\ nodes[m3].edges_ = <<>>

\* Device memory after one execution of the three fills in chain order.
MemoryAfterChain(m1, m2, m3) ==
  Fill(Fill(Fill(InitialMemory, nodes[m1].params), nodes[m2].params),
       nodes[m3].params)

\* The launch k submitted one command for each of m1, m2, m3, once, and
\* in that order, after the commands of the launch before.
LaunchInOrder(m1, m2, m3, k) ==
  \E c1 \in CommandsOf(m1, k), c2 \in CommandsOf(m2, k), c3 \in CommandsOf(m3, k) :
    /\ CommandsOf(m1, k) = {c1} /\ CommandsOf(m2, k) = {c2} /\ CommandsOf(m3, k) = {c3}
    /\ \A c \in {c1, c2, c3} : TimesQueued(c) = 1 /\ cmds[c].params = nodes[cmds[c].node].params
    /\ SubmittedBefore(c1, c2)
    /\ SubmittedBefore(c2, c3)
    /\ k > 1 => \A c \in CommandsOf(m3, k - 1) : SubmittedBefore(c, c1)

\* Every command of the queue Q that has started follows completed ones.
StartedInOrder(Q) ==
  \A i, j \in DOMAIN Q :
    (i < j /\ cmds[Q[j]].status \in {"running", "complete"}) =>
      cmds[Q[i]].status = "complete"

\* Every submitted command has completed.
AllComplete ==
  \A q \in Queues : \A i \in DOMAIN queues[q] : cmds[queues[q][i]].status = "complete"

\* C19: in a plan of three chained Memset nodes every Run that has returned
\* has submitted the fills of M1, M2, M3 once each and in that order, the
\* device executes them in that order, nothing else is submitted, and when
\* the fills of one Run or of two Runs in succession have completed the
\* destination memory is what one execution of M1, M2, M3 leaves.
C19_ReplayIsIdempotent ==
  \A m1, m2, m3 \in Heap :
    ChainPlan(m1, m2, m3) =>
      /\ \A q \in Queues : StartedInOrder(queues[q])
      /\ \A q \in Queues \ {0} : queues[q] = <<>>
      /\ run.pc = "idle" =>
           /\ \A k \in 1..run.launch : LaunchInOrder(m1, m2, m3, k)
           /\ Len(queues[0]) = 3 * run.launch
           /\ (run.launch >= 1 /\ AllComplete) =>
                MemoryFrom(InitialMemory, cmds, queues[0], 1)
                  = MemoryAfterChain(m1, m2, m3)

\* Two Runs of a plan of three chained Memset nodes with pairwise different
\* parameters have completed; executed in another order the fills would
\* have left the memory in another state.
C19_Witness ==
  \E m1, m2, m3 \in Heap :
    /\ ChainPlan(m1, m2, m3)
    /\ run.pc = "idle"
    /\ run.launch = 2
    /\ Len(queues[0]) = 6
    /\ AllComplete
    /\ nodes[m1].params # nodes[m2].params
    /\ nodes[m2].params # nodes[m3].params
    /\ nodes[m1].params # nodes[m3].params
    /\ MemoryFrom(InitialMemory, cmds, queues[0], 1) = MemoryAfterChain(m1, m2, m3)
    /\ MemoryAfterChain(m1, m2, m3) # MemoryAfterChain(m3, m2, m1)
    /\ MemoryAfterChain(m1, m2, m3) # MemoryAfterChain(m2, m1, m3)

\* The chains hold every vertex of V once, and nothing else.
IsPartition(lists, V) ==
  /\ \A n \in Range(V) :
       Cardinality({<<k, i>> \in (DOMAIN lists) \X (1..(Len(V) + 1)) :
                      i \in DOMAIN lists[k] /\ lists[k][i] = n}) = 1
  /\ \A k \in DOMAIN lists : Range(lists[k]) \subseteq Range(V)

\* C20: on every graph the edits can leave, GetRunList returns, leaves
\* every node and the vertex list as they are, and its chains hold every
\* vertex of the graph exactly once and nothing else.
C20_RunListIsPurePartition ==
  [][(last'.op \in {"GetRunList", "Fault"} /\ ops' # ops) =>
       /\ last'.op = "GetRunList"
       /\ nodes' = nodes
       /\ vertices_' = vertices_
       /\ nodeSet_' = nodeSet_
       /\ IsPartition(last'.ret.parallelLists, vertices_)
    ]_vars

\* GetRunList was called on a graph in which a vertex holds an edge to a
\* deleted node, and that node is in a chain of the result.
C20_Witness ==
  /\ last.op = "GetRunList"
  /\ \E k \in DOMAIN last.ret.parallelLists :
       \E d \in Range(last.ret.parallelLists[k]) :
         /\ d \notin nodeSet_
         /\ \E n \in Range(vertices_) : Contains(nodes[n].edges_, d)

\* C21: in the output of GetRunList, the wait list of every vertex n holds
\* exactly the dependencies of n that do not precede n in n's own chain: it
\* holds nothing but dependencies of n, none that precedes n in its chain,
\* and every other dependency of n.
C21_WaitListIsCrossChainDependencies ==
  last.op = "GetRunList" =>
    LET R == last.ret
    IN /\ DOMAIN R.waitLists = Range(vertices_)
       /\ \A n \in Range(vertices_) :
            /\ Range(R.waitLists[n]) \subseteq Range(nodes[n].dependencies_)
            /\ \A d \in Range(R.waitLists[n]) : ~EarlierInChain(R, d, n)
            /\ \A d \in Range(nodes[n].dependencies_) :
                 ~EarlierInChain(R, d, n) => Contains(R.waitLists[n], d)

C21_Witness ==
  /\ last.op = "GetRunList"
  /\ \E n, m \in Range(vertices_) :
       /\ nodes[n].dependencies_ # <<>>
       /\ last.ret.waitLists[n] = <<>>
       /\ Len(nodes[m].dependencies_) >= 2
       /\ Len(last.ret.waitLists[m]) >= 2
       /\ Contains(nodes[m].dependencies_, n)

\* C22: in the output of GetRunList, every node that is not the first of its
\* chain has exactly one dependency, the node right before it in the chain,
\* and is the first child of that node in edge insertion order; every vertex
\* with no or several dependencies, and every vertex that is in an edge list
\* at a position after the first, is the first node of a chain.
C22_ChainsFollowFirstChild ==
  last.op = "GetRunList" =>
    LET L == last.ret.parallelLists
    IN /\ \A k \in DOMAIN L : \A j \in DOMAIN L[k] :
            j > 1 =>
              /\ Len(nodes[L[k][j]].dependencies_) = 1
              /\ nodes[L[k][j]].dependencies_[1] = L[k][j - 1]
              /\ nodes[L[k][j - 1]].edges_[1] = L[k][j]
       /\ \A n \in Range(vertices_) :
            (\/ Len(nodes[n].dependencies_) # 1
             \/ \E p \in Range(vertices_) : \E i \in DOMAIN nodes[p].edges_ :
                  i > 1 /\ nodes[p].edges_[i] = n)
            => \E k \in DOMAIN L : L[k] # <<>> /\ L[k][1] = n

C22_Witness ==
  /\ last.op = "GetRunList"
  /\ \E k \in DOMAIN last.ret.parallelLists : Len(last.ret.parallelLists[k]) >= 2
  /\ \E p, n \in Range(vertices_) :
       /\ Len(nodes[p].edges_) >= 2
       /\ nodes[p].edges_[2] = n
       /\ nodes[p].edges_[1] # n
       /\ \E k \in DOMAIN last.ret.parallelLists : last.ret.parallelLists[k][1] = n
  /\ \E n \in Range(vertices_) : Len(nodes[n].dependencies_) >= 2

\* The nodes of the nested graphs of the ChildGraph vertices of V, each named
\* by its ChildGraph node and its index in the nested graph.
NestedNodes(H, V) ==
  UNION {{<<n, i>> : i \in DOMAIN H[n].params.childGraph_.vertices_} :
           n \in {v \in Range(V) : H[v].type_ = "Graph"}}

\* C23: LevelOrder() returns every vertex of the graph exactly once and
\* nothing else (no node of the nested graph of a ChildGraph vertex), in
\* non-decreasing level, every node after all of its dependencies, on every
\* graph built with AddEdge and RemoveEdge.
C23_LevelOrderIsTopological ==
  last.op = "LevelOrder" =>
    LET O == last.ret
    IN /\ Len(O) = Len(vertices_)
       /\ Range(O) = Range(vertices_)
       /\ \A i, j \in DOMAIN O :
            i < j => nodes[O[i]].level_ <= nodes[O[j]].level_
       /\ \A c \in Range(vertices_) : \A d \in Range(nodes[c].dependencies_) :
            /\ Contains(O, d)
            /\ IndexOf(O, d) < IndexOf(O, c)

C23_Witness ==
  /\ last.op = "LevelOrder"
  /\ Len(last.ret) = 3
  /\ NestedNodes(nodes, vertices_) # {}
  /\ \E c \in Range(vertices_) :
       /\ nodes[c].dependencies_ # <<>>
       /\ nodes[c].level_ > LevelOver(nodes, nodes[c].dependencies_, 1)
       /\ IndexOf(vertices_, c) < IndexOf(vertices_, nodes[c].dependencies_[1])

\* C24: after p.RemoveEdge(c) has returned true, c's level is the greatest
\* of q.level + 1 over the parents q that remain in c's dependency list (p
\* is not one of them), 0 when none remains, and every other node keeps its
\* level.
C24_RemoveEdgeRecomputesLevel ==
  [][(last'.op = "RemoveEdge" /\ last'.ret = TRUE) =>
       /\ nodes'[last'.c].level_ =
            LevelOver(nodes', nodes'[last'.c].dependencies_, 1)
       /\ \A n \in Heap \ {last'.c} : nodes'[n].level_ = nodes[n].level_
    ]_vars

C24_Witness ==
  /\ last.op = "RemoveEdge"
  /\ last.ret = TRUE
  /\ nodes[last.c].dependencies_ = <<>>
  /\ nodes[last.c].level_ = nodes[last.p].level_ + 1

\* The length of the longest path from a root to n along the dependency
\* lists of the heap H.
RECURSIVE LongestPathTo(_, _)
LongestPathTo(H, n) ==
  IF H[n].dependencies_ = <<>> THEN 0
  ELSE LET S == {LongestPathTo(H, d) : d \in Range(H[n].dependencies_)}
       IN 1 + CHOOSE m \in S : \A k \in S : k <= m

\* C25: after any sequence of AddEdge calls that keeps the graph acyclic,
\* the level of every node is the length of the longest path from a root to
\* it, 0 for a root.
C25_LevelIsLongestPath ==
  \A n \in nodeSet_ : nodes[n].level_ = LongestPathTo(nodes, n)

\* The last AddEdge(p, c) raised the level of a grandchild of c: without the
\* new edge the longest path to it is shorter.
C25_Witness ==
  /\ last.op = "AddEdge"
  /\ \E x, g \in nodeSet_ :
       /\ Contains(nodes[last.c].edges_, x)
       /\ Contains(nodes[x].edges_, g)
       /\ nodes[g].level_ = nodes[last.p].level_ + 3
       /\ LongestPathTo([nodes EXCEPT ![last.c].dependencies_ =
                                        RemoveAll(@, last.p)], g)
            < nodes[g].level_

\* C26: in every state reached by AddEdge, RemoveEdge and node destruction
\* on an acyclic graph, every edge p -> c between live nodes has
\* c.level >= p.level + 1.
C26_LevelsRespectEdges ==
  \A p \in nodeSet_ : \A c \in Range(nodes[p].edges_) \cap nodeSet_ :
    nodes[c].level_ >= nodes[p].level_ + 1

\* A node was constructed at the address an edge list still holds.
C26_Witness ==
  /\ last.op = "CreateNode"
  /\ \E p \in nodeSet_ : Contains(nodes[p].edges_, last.p)

\* The AddEdge(p, c) in progress closes a cycle: c is p or an ancestor of p.
CallCyclic ==
  /\ stack # <<>>
  /\ stack[1].node \in Reach(nodes, nodeSet_, stack[1].child)

\* C27: AddEdge makes no cycle check.  A call p.AddEdge(c) that leaves the
\* graph acyclic returns; a call with c = p or c an ancestor of p never
\* returns, with or without an error: the level propagation recurses until
\* the stack is used up.
C27_AddEdgeReturnsIffAcyclic ==
  /\ ((stack # <<>> /\ ~CallCyclic) ~> (stack = <<>> /\ last.op = "AddEdge"))
  /\ [][CallCyclic => stack' # <<>>]_vars
  /\ (CallCyclic ~> (aborted /\ Len(stack) = MaxStack))

C27_Witness ==
  /\ aborted
  /\ CallCyclic
  /\ stack[1].node # stack[1].child
  /\ Len(stack) = MaxStack
  /\ \E n \in nodeSet_ : Len(nodes[n].edges_) >= 2

\* C28: p.RemoveEdge(c) for a node c that is not in p's edge list returns
\* false and leaves every node as it was: edge and dependency lists,
\* inDegree, outDegree and level of p, of c and of every other node.
C28_RemoveAbsentEdgeChangesNothing ==
  [][(last'.op = "RemoveEdge" /\ ~Contains(nodes[last'.p].edges_, last'.c)) =>
       /\ last'.ret = FALSE
       /\ \A n \in Heap :
            /\ nodes'[n].edges_ = nodes[n].edges_
            /\ nodes'[n].dependencies_ = nodes[n].dependencies_
            /\ nodes'[n].inDegree_ = nodes[n].inDegree_
            /\ nodes'[n].outDegree_ = nodes[n].outDegree_
            /\ nodes'[n].level_ = nodes[n].level_
    ]_vars

C28_Witness ==
  /\ last.op = "RemoveEdge"
  /\ last.ret = FALSE
  /\ nodes[last.p].edges_ # <<>>
  /\ nodes[last.c].dependencies_ # <<>>
  /\ nodes[last.c].level_ >= 2

\* C29: the node that clone() returns has the kind and the parameters of the
\* original, an id no other live node has, level 0, empty edge and
\* dependency lists, and inDegree and outDegree 0.
C29_NodeCloneIsFreshVertex ==
  last.op = "NodeClone" =>
    /\ nodes[last.c].type_ = nodes[last.p].type_
    /\ nodes[last.c].params = nodes[last.p].params
    /\ \A n \in nodeSet_ \ {last.c} : nodes[n].id_ # nodes[last.c].id_
    /\ nodes[last.c].level_ = 0
    /\ nodes[last.c].edges_ = <<>>
    /\ nodes[last.c].dependencies_ = <<>>
    /\ nodes[last.c].inDegree_ = 0
    /\ nodes[last.c].outDegree_ = 0

\* A Memset node with a parent and a child was cloned.
C29_Witness ==
  /\ last.op = "NodeClone"
  /\ nodes[last.p].type_ = "Memset"
  /\ nodes[last.p].level_ = 1
  /\ nodes[last.p].edges_ # <<>>
  /\ nodes[last.c].level_ = 1
  /\ nodes[last.c].inDegree_ = 1
  /\ nodes[last.c].outDegree_ = 1
  /\ nodes[last.c].id_ = nodes[last.p].id_
  /\ nodes[last.c].edges_ = <<>>

\* C30: n.SetParams(m) with m of another kind than n returns an error and
\* leaves n's parameters as they were, whatever the kind of n.
C30_SetParamsChecksKind ==
  [][(last'.op = "SetParamsNode" /\
      nodes[last'.p].type_ # nodes[last'.c].type_) =>
       /\ last'.ret # "hipSuccess"
       /\ nodes'[last'.p].params = nodes[last'.p].params
    ]_vars

\* A Memset node has taken parameters from a Host node.
C30_Witness ==
  /\ last.op = "SetParamsNode"
  /\ nodes[last.p].type_ = "Memset"
  /\ nodes[last.c].type_ = "Host"
  /\ last.ret = "hipSuccess"

\* C31: after n.SetParams(m) succeeds with m of n's kind, every stored
\* parameter of n equals the same-named parameter of m, for every kind.
C31_SetParamsCopiesFieldByField ==
  [][(last'.op = "SetParamsNode" /\ last'.ret = "hipSuccess" /\
      nodes[last'.p].type_ = nodes[last'.c].type_) =>
       nodes'[last'.p].params = nodes[last'.c].params
    ]_vars

\* A MemcpyToSymbol node has taken the parameters of another one whose
\* source pointer is not its symbol.
C31_Witness ==
  /\ last.op = "SetParamsNode"
  /\ last.ret = "hipSuccess"
  /\ nodes[last.p].type_ = "MemcpyToSymbol"
  /\ nodes[last.c].type_ = "MemcpyToSymbol"
  /\ nodes[last.c].params.src # nodes[last.c].params.symbol

\* The position of the command c in its queue, 0 when it was not submitted.
QueuePosition(c) == IndexOf(queues[cmds[c].queue], c)

\* C32: EnqueueCommands of a ChildGraph node submits every command the node
\* holds exactly once, its root command before and its end command after the
\* commands of the nested nodes.
C32_ChildGraphEnqueuesEnterNestedExit ==
  [][(last'.op = "Enqueue" /\ last' # last /\ nodes[last'.p].type_ = "Graph") =>
       \A c \in Range(nodes[last'.p].commands_) :
         /\ TimesQueued(c)' = 1
         /\ \A d \in NestedCommandsIn(cmds, last'.p, run.launch) :
              cmds[d].queue = cmds[c].queue =>
                /\ QueuePosition(d)' > 0
                /\ cmds[c].type = "RootMarker" => QueuePosition(c)' < QueuePosition(d)'
                /\ cmds[c].type = "EndMarker" => QueuePosition(c)' > QueuePosition(d)'
    ]_vars

\* A ChildGraph node that holds a root and an end command was enqueued.
C32_Witness ==
  /\ last.op = "Enqueue"
  /\ nodes[last.p].type_ = "Graph"
  /\ Len(nodes[last.p].commands_) = 2

Started(c) == cmds[c].status \in {"running", "complete"}

\* C33: in every launch, no command of a ChildGraph node's nested graph has
\* started unless the commands of every dependency of the ChildGraph node
\* have completed, and no command of a node that depends on the ChildGraph
\* node has started unless every command of the nested graph has completed.
C33_ChildGraphIsOneUnit ==
  \A g \in Range(clonedGraph) : \A L \in 1..run.launch :
    nodes[g].type_ = "Graph" =>
      /\ \A d \in NestedCommandsIn(cmds, g, L) :
           Started(d) =>
             \A p \in Range(nodes[g].dependencies_) :
               \A c \in CommandsOf(p, L) : cmds[c].status = "complete"
      /\ \A e \in Range(nodes[g].edges_) :
           \A c \in CommandsOf(e, L) :
             Started(c) =>
               \A d \in NestedCommandsIn(cmds, g, L) : cmds[d].status = "complete"

\* A node that depends on a ChildGraph node with two nested chains has started.
C33_Witness ==
  \E g \in Range(clonedGraph) :
    /\ nodes[g].type_ = "Graph"
    /\ Cardinality(NestedCommandsIn(cmds, g, 1)) = 2
    /\ \E e \in Range(nodes[g].edges_) : \E c \in CommandsOf(e, 1) : Started(c)

NestedChains(node) ==
  Len(GetRunList(node.params.childGraph_.nodes,
                 node.params.childGraph_.vertices_).parallelLists)

\* C35: the plan holds (top-level chains - 1) + the sum of
\* GetNumParallelQueues() over its nodes queues; every queue a chain was
\* given during instantiation and replay is the launch queue or one of
\* these; and the queue cursor is 0 whenever no Run is under way.
C35_QueueCursorInRange ==
  exec.state = "Instantiated" =>
    /\ exec.parallelQueues_ =
         Len(exec.parallelLists_) - 1 + SumQueues(nodes, exec.levelOrder_, 1)
    /\ \A c \in DOMAIN cmds : cmds[c].queue <= exec.parallelQueues_
    /\ exec.currentQueueIndex_ <= exec.parallelQueues_
    /\ run.pc = "idle" => exec.currentQueueIndex_ = 0

\* A plan with a second chain and a ChildGraph node was launched.
C35_Witness ==
  /\ exec.state = "Instantiated"
  /\ run.launch = 1
  /\ Len(exec.parallelLists_) = 2
  /\ \E n \in Range(clonedGraph) : nodes[n].type_ = "Graph"

\* C36: GetNumParallelQueues() of a ChildGraph node is the sum over its
\* nested nodes plus the number of nested chains - 1, a number between 0 and
\* the number of nested nodes.
C36_NumParallelQueuesInRange ==
  (last.op = "GetNumParallelQueues" /\ nodes[last.p].type_ = "Graph") =>
    /\ last.ret \in 0..Len(nodes[last.p].params.childGraph_.vertices_)
    /\ last.ret =
         SumQueues(nodes[last.p].params.childGraph_.nodes,
                   nodes[last.p].params.childGraph_.vertices_, 1)
         + NestedChains(nodes[last.p]) - 1

\* GetNumParallelQueues was called on a ChildGraph node without nested nodes.
C36_Witness ==
  /\ last.op = "GetNumParallelQueues"
  /\ nodes[last.p].type_ = "Graph"
  /\ nodes[last.p].params.childGraph_.vertices_ = <<>>

\* C37: when CreateCommand of a node returns an error, commands_ of the node
\* holds no entry from the failed call: it is empty or what it was before,
\* with no NULL and no pointer that was never set.
C37_FailedCreateLeavesNoEntry ==
  [][(last'.op = "CreateCommand" /\ last'.ret # "hipSuccess") =>
       /\ nodes'[last'.p].commands_ \in {<<>>, nodes[last'.p].commands_}
       /\ \A e \in Range(nodes'[last'.p].commands_) : e \in DOMAIN cmds'
    ]_vars

C37_Witness ==
  /\ last.op = "CreateCommand"
  /\ last.ret = "hipErrorOutOfMemory"
  /\ nodes[last.p].type_ = "Memcpy1D"
  /\ nodes[last.p].commands_ = <<NULL>>

\* C38: after CreateCommand(queue) of a node returned hipSuccess, GetQueue()
\* of the node is that queue and commands_ holds exactly the commands the
\* call created, none of an earlier CreateCommand.
C38_CreateBindsOnlyNewCommands ==
  [][(last'.op = "CreateCommand" /\ last'.ret = "hipSuccess") =>
       /\ nodes'[last'.p].queue_ = last'.c
       /\ Range(nodes'[last'.p].commands_) = DOMAIN cmds' \ DOMAIN cmds
       /\ Len(nodes'[last'.p].commands_) = Len(cmds') - Len(cmds)
    ]_vars

C38_Witness ==
  /\ last.op = "CreateCommand"
  /\ last.ret = "hipSuccess"
  /\ nodes[last.p].type_ = "Host"
  /\ Len(nodes[last.p].commands_) = 2
  /\ nodes[last.p].queue_ = NULL

\* C39: across the CreateCommand, EnqueueCommands and ReleaseCommand calls on
\* a node no command is released twice, and once CreateCommand has bound the
\* node again every command it held before has been released exactly once.
C39_CommandsReleasedOnce ==
  [][/\ \A c \in DOMAIN cmds' : cmds'[c].released <= 1
     /\ (last'.op = "CreateCommand" /\ last'.ret = "hipSuccess"
         /\ nodes'[last'.p].commands_ # nodes[last'.p].commands_) =>
          \A c \in DOMAIN cmds : cmds[c].node = last'.p => cmds'[c].released = 1
    ]_vars

C39_Witness ==
  /\ last.op = "ReleaseCommand"
  /\ \E c \in DOMAIN cmds :
       /\ cmds[c].node = last.p
       /\ cmds[c].status = "queued"
       /\ cmds[c].released = 2

\* The bytes from the start of the destination to the end of the last row
\* the parameters q fill.
FillEnd(q) == q.pitch * (q.height - 1) + q.width * q.elementSize

\* The parameters q are in range and fill nothing past the allocation.
InBounds(q) ==
  /\ q.width # 0
  /\ q.elementSize \in {1, 2, 4}
  /\ q.height # 0
  /\ FillEnd(q) <= DevSize

\* C40: SetParams of a Memset node returns hipErrorInvalidValue when the
\* width is 0, the element size is not 1, 2 or 4, the height is 0, or the
\* rows to fill end past the destination allocation (computed without
\* wrap-around), and accepts the parameters otherwise; CreateCommand of a
\* node that stores such parameters returns an error.
C40_MemsetValidatesBounds ==
  [][/\ last'.op = "MemsetNodeSetParams" =>
          IF InBounds(last'.c)
          THEN last'.ret = "hipSuccess" /\ nodes'[last'.p].params = last'.c
          ELSE last'.ret = "hipErrorInvalidValue"
     /\ (last'.op = "CreateCommand" /\ ~InBounds(nodes[last'.p].params)) =>
          last'.ret # "hipSuccess"
    ]_vars

C40_Witness ==
  /\ last.op = "MemsetNodeSetParams"
  /\ last.ret = "hipSuccess"
  /\ nodes[last.p].params = last.c
  /\ last.c.height = 2
  /\ last.c.elementSize = 4
  /\ last.c.width = 2
  /\ FillEnd(last.c) > DevSize

====
